---- MODULE Spec2Model ----
(***************************************************************************)
(* A model of the agent conversation core of willknow-go: the websocket    *)
(* session handler (handleWebSocket), the turn loop (processChat), the     *)
(* built-in tool registry (tools.Registry) and the tool dispatcher of the  *)
(* Assistant (executeToolCall, openapi.FindTool, openapi.ExecuteTool).     *)
(*                                                                         *)
(* Strings the code builds with fmt.Sprintf / fmt.Errorf are sequences of  *)
(* their pieces, so that a prefix such as "Error: " can be tested.  A Go   *)
(* map[string]interface{} is a TLA+ function from the keys it holds.       *)
(***************************************************************************)
EXTENDS Integers, Sequences, FiniteSets, TLC

VARIABLES
    \* --- Assistant (set by New, read-only afterwards) ---
    apiTools,        \* a.apiTools: sequence of APITool
    hostBaseURL,     \* a.config.HostBaseURL ("" when unset)
    logTool,         \* a.toolRegistry.logTool: registered or nil, and its logFiles
    codeIndexTool,   \* a.toolRegistry.codeIndexTool # nil
    \* --- Session ---
    messages,        \* session.messages
    logFile,         \* session.logFile # nil
    audit,           \* the records written to session.logFile
    out,             \* the ChatResponse values written to the connection
    \* --- handleWebSocket / processChat control state ---
    pc,              \* position of the connection's goroutine
    turn,            \* processChat: turn
    snapshot,        \* processChat: messages (the copy handed to the provider)
    response,        \* processChat: response.Content
    idx,             \* processChat: index of the next block of response.Content
    assistantContent,\* processChat: assistantContent
    hasToolUse,      \* processChat: hasToolUse
    chatErr,         \* the error processChat returned (NoErr when nil)
    \* --- the upstream provider (a scripted backend) ---
    script,          \* the responses the backend cycles through
    nCalls,          \* SendMessage calls the backend has received
    sent,            \* what the last SendMessage call was given
    nextId,          \* next block number the backend hands out
    mu,              \* session.mu is held
    \* --- bookkeeping of the run ---
    nMsgs,           \* client messages read so far
    runCalls,        \* provider calls made by the current processChat run
    runExecs,        \* tool executions made by the current processChat run
    lastExec,        \* the outcome of the last tool execution of processChat
    \* --- the dispatcher called on its own (executeToolCall) ---
    dName, dParams, dAuth,   \* the arguments of the last executeToolCall
    dHost,                   \* what the host did with its request
    dResult,                 \* what it returned
    http,                    \* the HTTP requests it put on the wire
    \* --- several connections served by one Assistant ---
    sess,            \* the Session and connection of each handleWebSocket call
    sessionFiles,    \* the files under ./sessions, by name
    \* --- a provider adapter called on its own (SendMessage) ---
    adapter,         \* which Provider implementation is called
    upstream,        \* what the network and the upstream did with the last call
    reply,           \* what the last SendMessage returned
    \* --- the chat-completion conversions called on their own ---
    convCase,        \* which conversion was applied last
    convIn,          \* what it was applied to
    convOut,         \* what it gave
    \* --- the OpenAPI synthesis called on its own (extractSpec) ---
    doc,             \* the operations of the document, in the order they are met
    parsed,          \* the ParsedSpec and the warnings printed
    \* --- the authentication on its own (AuthManager) ---
    authConfig,      \* Config.Auth
    authManager,     \* Assistant.authManager
    served           \* what authMiddleware did with the last request

vars == << apiTools, hostBaseURL, logTool, codeIndexTool, messages, logFile,
           audit, out, pc, turn, snapshot, response, idx, assistantContent,
           hasToolUse, chatErr, script, nCalls, sent, nextId, mu, nMsgs,
           runCalls, runExecs, lastExec, dName, dParams, dAuth, dHost, dResult, http,
           sess, sessionFiles, adapter, upstream, reply, convCase, convIn,
           convOut, doc, parsed, authConfig, authManager, served >>

assistantVars == << apiTools, hostBaseURL, logTool, codeIndexTool >>
dispatchVars  == << dName, dParams, dAuth, dHost, dResult, http >>
sessionsVars  == << sess, sessionFiles >>
adapterVars   == << adapter, upstream, reply >>
convertVars   == << convCase, convIn, convOut >>
synthVars     == << doc, parsed >>
authVars      == << authConfig, authManager, served >>

\* The nil error.  Every error the code builds has a non-empty message.
NoErr == << >>

\* ---------------------------------------------------------------- bounds
MaxBlocks == 2      \* longest response.Content the backend returns
MaxLead   == 1      \* most repetitions of the script's first entry
MaxMsgs   == 2      \* client messages read on one connection
MaxApiTools == 2    \* longest a.apiTools drawn for the dispatcher
MaxSessCalls == 2   \* provider calls answered on one of several connections

\* ------------------------------------------------------- program constants
maxTurns == 10
systemPrompt == "You are an AI debugging assistant embedded in a running application."

\* ------------------------------------------------------------ built-in tools
\* The files under sourcePath that can be opened and hold at least one line.
Files == {"main.go"}

\* A (string, error) pair as the Go functions return it.
\* handler names the code that produced it, requests the HTTP requests it sent.
Ok(text, by)   == [result |-> text, err |-> NoErr, handler |-> by, requests |-> << >>]
Fail(msg, by)  == [result |-> << >>, err |-> msg, handler |-> by, requests |-> << >>]

\* params[key].(string): the key is present (every value of the model is a string).
HasString(params, key) == key \in DOMAIN params

ReadFileExecute(params) ==
    IF ~HasString(params, "file_path")
    THEN Fail(<<"file_path parameter is required">>, "read_file")
    ELSE IF params["file_path"] \notin Files
         THEN Fail(<<"failed to open file: ", params["file_path"]>>, "read_file")
         ELSE Ok(<<"File: ", params["file_path"]>>, "read_file")

GrepExecute(params) ==
    IF ~HasString(params, "pattern")
    THEN Fail(<<"pattern parameter is required">>, "grep")
    ELSE Ok(<<"Found matches for pattern: ", params["pattern"]>>, "grep")

GlobExecute(params) ==
    IF ~HasString(params, "pattern")
    THEN Fail(<<"pattern parameter is required">>, "glob")
    ELSE Ok(<<"Found files matching pattern: ", params["pattern"]>>, "glob")

\* The registry's logTool field: nil, or a LogQueryTool with its logFiles.
NoLogTool == [registered |-> FALSE, logFiles |-> << >>]
LogToolWith(files) == [registered |-> TRUE, logFiles |-> files]

\* files: the logFiles the tool was registered with.
LogQueryExecute(files, params) ==
    IF ~HasString(params, "query")
    THEN Fail(<<"query parameter is required">>, "read_logs")
    ELSE IF Len(files) = 0
         THEN Fail(<<"no log files configured">>, "read_logs")
         ELSE Ok(<<"Log entries for query: ", params["query"]>>, "read_logs")

CodeIndexExecute(params) ==
    IF ~HasString(params, "query") \/ params["query"] = ""
    THEN Fail(<<"query parameter is required">>, "search_code_index")
    ELSE Ok(<<"Files matching query: ", params["query"]>>, "search_code_index")

\* Registry.Execute: the switch over the tool name.
RegistryExecute(lt, cit, name, params) ==
    CASE name = "read_file" -> ReadFileExecute(params)
      [] name = "grep"      -> GrepExecute(params)
      [] name = "glob"      -> GlobExecute(params)
      [] name = "read_logs" ->
            IF ~lt.registered THEN Fail(<<"log tool not configured">>, "none")
                              ELSE LogQueryExecute(lt.logFiles, params)
      [] name = "search_code_index" ->
            IF ~cit THEN Fail(<<"code index not available">>, "none")
                    ELSE CodeIndexExecute(params)
      [] OTHER -> Fail(<<"unknown tool: ", name>>, "none")

\* A provider.Tool, by what the claims read of it: its name and where it came from.
ToolDef(name, source) == [Name |-> name, source |-> source]

\* Registry.GetToolDefinitions: three fixed definitions, then the two optional ones.
GetToolDefinitions(lt, cit) ==
    << ToolDef("read_file", "builtin"), ToolDef("grep", "builtin"),
       ToolDef("glob", "builtin") >>
    \o (IF lt.registered THEN << ToolDef("read_logs", "builtin") >> ELSE << >>)
    \o (IF cit THEN << ToolDef("search_code_index", "builtin") >> ELSE << >>)

\* ------------------------------------------------------------- API tools
\* An openapi.APITool.  Path is the path template cut at its "/" separators,
\* a path parameter being the piece "{name}"; RequestBody is the set of its
\* property names, declared says whether the tool has a request body at all.
APITool(name, method, path, parameters, hasBody, props) ==
    [Name |-> name, Method |-> method, Path |-> path, Parameters |-> parameters,
     HasRequestBody |-> hasBody, Properties |-> props]
Parameter(name, in, required) == [Name |-> name, In |-> in, Required |-> required]

GetUser    == APITool("getUser", "GET", <<"users", "{id}">>,
                      << Parameter("id", "path", TRUE),
                         Parameter("verbose", "query", FALSE) >>, FALSE, {})
CreateUser == APITool("createUser", "POST", <<"users">>, << >>, TRUE, {"name"})
\* an operation whose operationId is the name of a built-in tool
ShadowGrep == APITool("grep", "GET", <<"search">>,
                      << Parameter("pattern", "query", TRUE) >>, FALSE, {})
\* a second operation with the operationId getUser
GetUserV2  == APITool("getUser", "GET", <<"v2", "users", "{id}">>,
                      << Parameter("id", "path", TRUE) >>, FALSE, {})

\* APITool.ToProviderTool, by the name it carries over.
ToProviderTool(t) == ToolDef(t.Name, "api")

\* FindTool that keeps the last tool with that name.
FindToolLast(tools, name) ==
    LET hits == { i \in 1..Len(tools) : tools[i].Name = name }
    IN  IF hits = {} THEN 0 ELSE CHOOSE i \in hits : \A j \in hits : j <= i

\* openapi.FindTool: the index of the first tool with that name, 0 for nil.
RECURSIVE FindFrom(_, _, _)
FindFrom(tools, name, i) ==
    IF i > Len(tools) THEN 0
    ELSE IF tools[i].Name = name THEN i
    ELSE FindFrom(tools, name, i + 1)

FindTool(tools, name) == FindFrom(tools, name, 1)

\* Assistant.getAPIToolDefinitions
getAPIToolDefinitions(tools) == [i \in 1..Len(tools) |-> ToProviderTool(tools[i])]

\* Assistant.getAllToolDefinitions
getAllToolDefinitions(lt, cit, tools) ==
    GetToolDefinitions(lt, cit) \o getAPIToolDefinitions(tools)

\* ------------------------------------------------------ openapi.ExecuteTool
\* What the host does with a request: the transport fails, the body
\* cannot be read to its end, or it answers with a status and a body.
Reaction(isSent, isRead, status, body, isJSON) ==
    [sent |-> isSent, read |-> isRead, status |-> status, body |-> body,
     json |-> isJSON]
NoReaction == Reaction(FALSE, FALSE, 0, "", FALSE)
HostReactions ==
    { NoReaction,
      Reaction(TRUE, TRUE, 200, "{\"id\":1}", TRUE),
      Reaction(TRUE, TRUE, 200, "pong", FALSE),
      Reaction(TRUE, TRUE, 404, "{\"error\":\"no\"}", TRUE) }

\* fmt.Sprintf("%d", status)
StatusText(status) == ToString(status)

ParamNames(tool, in) ==
    { tool.Parameters[i].Name :
        i \in { j \in 1..Len(tool.Parameters) : tool.Parameters[j].In = in } }

\* strings.ReplaceAll(path, "{"+name+"}", value) on a path cut at its "/"
ReplaceAll(path, name, value) ==
    [i \in 1..Len(path) |-> IF path[i] = "{" \o name \o "}" THEN value ELSE path[i]]

\* the loop over params, in the order the range over the map meets the
\* names, from name i on: the path after the path parameters are injected
RECURSIVE InjectFrom(_, _, _, _, _)
InjectFrom(tool, params, order, i, path) ==
    IF i > Len(order) THEN path
    ELSE InjectFrom(tool, params, order, i + 1,
                    IF order[i] \in ParamNames(tool, "path")
                    THEN ReplaceAll(path, order[i], params[order[i]])
                    ELSE path)
InjectPath(tool, params, order) == InjectFrom(tool, params, order, 1, tool.Path)

QueryParams(tool, params) ==
    { n \in DOMAIN params :
        n \notin ParamNames(tool, "path") /\ n \in ParamNames(tool, "query") }

BodyParams(tool, params) ==
    { n \in DOMAIN params :
        /\ n \notin ParamNames(tool, "path")
        /\ n \notin ParamNames(tool, "query")
        /\ tool.HasRequestBody }

\* the headers with Content-Type on every request.
RequestHeadersAlwaysTyped(hasBody, authHeader) ==
    [h \in {"Accept", "Content-Type"}
           \cup (IF authHeader # "" THEN {"Authorization"} ELSE {})
       |-> IF h = "Authorization" THEN authHeader ELSE "application/json"]

\* req.Header after the three Set calls
RequestHeaders(hasBody, authHeader) ==
    [h \in {"Accept"}
           \cup (IF hasBody THEN {"Content-Type"} ELSE {})
           \cup (IF authHeader # "" THEN {"Authorization"} ELSE {})
       |-> IF h = "Authorization" THEN authHeader ELSE "application/json"]

\* url.Parse inside http.NewRequest: a path piece with a broken escape
InvalidEscape == "%zz"
ParsesAsURL(path) == \A i \in 1..Len(path) : path[i] # InvalidEscape

\* The *http.Request that ExecuteTool builds.  The query is kept as the map
\* it is made of; the order of its pairs in the URL is that of a range over
\* the map.
BuildRequest(tool, params, order, baseURL, authHeader) ==
    LET body == BodyParams(tool, params)
    IN  [ method  |-> tool.Method,
          base    |-> baseURL,
          path    |-> InjectPath(tool, params, order),
          query   |-> [n \in QueryParams(tool, params) |-> params[n]],
          body    |-> [n \in body |-> params[n]],
          hasBody |-> body # {},
          headers |-> RequestHeaders(body # {}, authHeader) ]

\* a status outside 2xx returned as an error.
FormatResultStatusError(host) ==
    IF ~(host.status >= 200 /\ host.status < 300)
    THEN Fail(<<"API call failed with status ", StatusText(host.status), ": ",
                host.body>>, "api")
    ELSE IF host.json THEN Ok(<<"indented:", host.body>>, "api")
    ELSE Ok(<<host.body>>, "api")

\* ExecuteTool from "Format result" on: json.MarshalIndent of a body that
\* parses is marked by the piece "indented:"
FormatResult(host) ==
    IF ~(host.status >= 200 /\ host.status < 300)
    THEN Ok(<<"API call failed with status ", StatusText(host.status), ": ",
              host.body>>, "api")
    ELSE IF host.json THEN Ok(<<"indented:", host.body>>, "api")
    ELSE Ok(<<host.body>>, "api")

ExecuteTool(tool, params, order, baseURL, authHeader, host) ==
    LET req == BuildRequest(tool, params, order, baseURL, authHeader)
        res ==
            IF ~host.sent THEN Fail(<<"API call failed: ", "connection refused">>, "api")
            ELSE IF ~host.read
            THEN Fail(<<"failed to read response: ", "unexpected EOF">>, "api")
            ELSE FormatResult(host)
    IN  IF ~ParsesAsURL(req.path)
        THEN Fail(<<"failed to create request: ", "invalid URL escape">>, "api")
        ELSE [res EXCEPT !.requests = << req >>]

\* ------------------------------------------------ Assistant.executeToolCall
\* executeToolCall that asks the built-in registry first.
executeToolCallBuiltinFirst(tools, baseURL, lt, cit, name, params, order, authHeader, host) ==
    LET i == FindTool(tools, name)
        r == RegistryExecute(lt, cit, name, params)
    IN  IF r.err # << "unknown tool: ", name >> \/ i = 0
        THEN r
        ELSE IF baseURL = ""
             THEN Fail(<<"HostBaseURL is not configured for API tool execution">>,
                       "none")
             ELSE ExecuteTool(tools[i], params, order, baseURL, authHeader, host)

\* executeToolCall without the check of the base URL.
executeToolCallNoURLCheck(tools, baseURL, lt, cit, name, params, order, authHeader, host) ==
    LET i == FindTool(tools, name)
    IN  IF i # 0
        THEN ExecuteTool(tools[i], params, order, baseURL, authHeader, host)
        ELSE RegistryExecute(lt, cit, name, params)

executeToolCall(tools, baseURL, lt, cit, name, params, order, authHeader, host) ==
    LET i == FindTool(tools, name)
    IN  IF i # 0
        THEN IF baseURL = ""
             THEN Fail(<<"HostBaseURL is not configured for API tool execution">>,
                       "none")
             ELSE ExecuteTool(tools[i], params, order, baseURL, authHeader, host)
        ELSE RegistryExecute(lt, cit, name, params)

\* ========================================================= authentication
\* A GetUserFunc is known by what it returns: for the nil request that
\* newAuthManager probes it with, and for a request by the credentials it
\* carries.  A Go func value can be compared with nil only; `sentinel` marks
\* the value NoAuth itself and is read by no definition of the program.
Credentials == { "none", "good", "bad" }
Returns(kind, id, name) == [kind |-> kind, ID |-> id, Name |-> name]
Anonymous == Returns("user", "anonymous", "Anonymous")
UserAnn == Returns("user", "u1", "Ann")
NilUser == Returns("nil", "", "")
AuthError == Returns("error", "", "")
\* a nil-pointer dereference of the request
Panics == Returns("panic", "", "")

GetUserFunc(isSet, sentinel, onNil, onRequest) ==
    [isSet |-> isSet, sentinel |-> sentinel, onNil |-> onNil, on |-> onRequest]
NilFunc == GetUserFunc(FALSE, FALSE, Panics, [c \in Credentials |-> Panics])
NoAuth == GetUserFunc(TRUE, TRUE, Anonymous, [c \in Credentials |-> Anonymous])
CustomFuncs ==
    { GetUserFunc(TRUE, FALSE, onNil,
                  [c \in Credentials |->
                      IF c = "good" THEN good ELSE IF c = "bad" THEN bad ELSE none]) :
        onNil \in { Anonymous, UserAnn, NilUser, AuthError, Panics },
        good \in { UserAnn, Anonymous },
        bad \in { AuthError, NilUser },
        none \in { AuthError, Anonymous } }

AuthConfig(getUser, password) == [GetUser |-> getUser, Password |-> password]
Passwords == { "", "s3cret" }
\* generatePassword: eight hexadecimal digits of crypto/rand
GeneratedPasswords == { "0a1b2c3d", "ffffffff" }
\* the session tokens verifyPassword draws from crypto/rand
Tokens == { "t1", "t2" }

AuthManager(mode, config, password, sessions) ==
    [mode |-> mode, config |-> config, password |-> password, sessions |-> sessions]
NoAuthManager(config) == AuthManager("none", config, "", {})

\* the probe of newAuthManager read as a comparison with the sentinel.
IsNoAuthByIdentity(getUser) == getUser.sentinel

\* testUser, err := config.GetUser(nil) and the test on what it gave
IsNoAuth(getUser) == getUser.onNil = Anonymous

\* newAuthManager; a panic of the probe ends the program before it serves
newAuthManager(config, generated) ==
    IF config.GetUser.isSet
    THEN IF config.GetUser.onNil = Panics
         THEN AuthManager("panicked", config, "", {})
         ELSE IF IsNoAuth(config.GetUser)
         THEN AuthManager("authModeOpen", config, "", {})
         ELSE AuthManager("authModeCustom", config, "", {})
    ELSE AuthManager("authModePassword", config,
                     IF config.Password # "" THEN config.Password ELSE generated, {})

\* A request: its credentials and its willknow_session cookie ("" for none).
Request(cred, cookie) == [cred |-> cred, cookie |-> cookie]
Requests == { Request(c, k) : c \in Credentials, k \in {""} \cup Tokens }
Authenticated(user, called) == [user |-> user, err |-> NoErr, called |-> called]
Rejected(msg, called) == [user |-> NilUser, err |-> msg, called |-> called]

\* AuthManager.authenticateRequest; `called` tells whether config.GetUser ran
authenticateRequest(am, r) ==
    IF am.mode = "authModeOpen" THEN Authenticated(Anonymous, FALSE)
    ELSE IF am.mode = "authModeCustom"
    THEN LET got == am.config.GetUser.on[r.cred]
         IN  IF got.kind = "error"
             THEN Rejected(<<"authentication failed: ", "denied">>, TRUE)
             ELSE IF got.kind = "nil"
             THEN Rejected(<<"authentication failed: no user returned">>, TRUE)
             ELSE Authenticated(got, TRUE)
    ELSE IF r.cookie = "" THEN Rejected(<<"no session cookie">>, FALSE)
    ELSE IF r.cookie \notin am.sessions
    THEN Rejected(<<"invalid or expired session">>, FALSE)
    ELSE Authenticated(Returns("user", "user", ""), FALSE)

\* authMiddleware: what the client gets
authMiddleware(am, r) ==
    LET a == authenticateRequest(am, r)
    IN  [ request |-> r, auth |-> a,
          answer |-> IF a.err = NoErr THEN "next"
                     ELSE IF am.mode = "authModePassword" THEN "302 /auth/login"
                     ELSE "401" ]
NotServed ==
    [ request |-> Request("none", ""), auth |-> Rejected(<< >>, FALSE),
      answer |-> "none" ]

InitAuthIdle ==
    /\ authConfig = AuthConfig(NilFunc, "")
    /\ authManager = NoAuthManager(authConfig)
    /\ served = NotServed

\* ------------------------------------------------------ provider.Message
\* An empty map[string]interface{}.
EmptyInput == [k \in {} |-> ""]

\* A provider.ContentBlock: the Go struct, unused fields at their zero value.
TextBlock(text) ==
    [Type |-> "text", Text |-> text, ID |-> "", Name |-> "", Input |-> EmptyInput,
     ToolUseID |-> "", Content |-> << >>]
ToolUseBlock(id, name, input) ==
    [Type |-> "tool_use", Text |-> "", ID |-> id, Name |-> name, Input |-> input,
     ToolUseID |-> "", Content |-> << >>]
ToolResultBlock(id, content) ==
    [Type |-> "tool_result", Text |-> "", ID |-> "", Name |-> "", Input |-> EmptyInput,
     ToolUseID |-> id, Content |-> content]

Message(role, content) == [Role |-> role, Content |-> content]

\* ------------------------------------------------------------ the backend
\* The backend is scripted: it answers its calls with `lead` times the entry
\* `first` and then once the entry `last`, over and over.  An entry either
\* fails the call or gives the block types of response.Content.  Block number n has text "a<n>" or tool id "toolu_<n>",
\* and the n-th block, if a tool_use, asks for entry n of ToolCalls (cyclically).
BlockTypes == {"text", "tool_use"}
Shapes ==
    { [fail |-> TRUE, types |-> << >>] } \cup
    { [fail |-> FALSE, types |-> t] :
        t \in UNION { [1..n -> BlockTypes] : n \in 0..MaxBlocks } }
Scripts ==
    { [lead |-> k, first |-> a, last |-> b] :
        k \in 0..MaxLead, a \in Shapes, b \in Shapes }

\* The entry that answers call number n (counted from 0).
ShapeAt(sc, n) ==
    IF n % (sc.lead + 1) < sc.lead THEN sc.first ELSE sc.last

ToolCalls ==
    << [name |-> "read_file", input |-> [file_path |-> "main.go"]],
       [name |-> "getUser",   input |-> [id |-> "7"]],
       [name |-> "read_file", input |-> EmptyInput],
       [name |-> "nope",      input |-> EmptyInput] >>

BlockOf(type, n) ==
    IF type = "text" THEN TextBlock("a" \o ToString(n))
    ELSE LET c == ToolCalls[(n % Len(ToolCalls)) + 1]
         IN  ToolUseBlock("toolu_" \o ToString(n), c.name, c.input)

\* response.Content of a successful call that starts at block number n
ResponseContent(shape, n) ==
    [i \in 1..Len(shape.types) |-> BlockOf(shape.types[i], n + i - 1)]

\* ------------------------------------------------------------ Session.logEvent
logEvent(open, log, type, ref) ==
    IF ~open THEN log ELSE Append(log, [type |-> type, ref |-> ref])

\* conn.WriteJSON(ChatResponse{...})
WriteJSON(conn, type, content) == Append(conn, [Type |-> type, Content |-> content])

\* fmt.Sprintf("Error: %v", err)
ErrorText(err) == << "Error: " >> \o err

\* ============================================================ handleWebSocket
procVars == << turn, snapshot, response, idx, assistantContent, hasToolUse >>
backendVars == << script, nCalls, sent, nextId >>

\* The state of a connection that is about to be accepted.
InitSession ==
    /\ messages = << >>
    /\ audit = << >>
    /\ out = << >>
    /\ pc = "accept"
    /\ turn = 0
    /\ snapshot = << >>
    /\ response = << >>
    /\ idx = 1
    /\ assistantContent = << >>
    /\ hasToolUse = FALSE
    /\ chatErr = NoErr
    /\ nCalls = 0
    /\ sent = [messages |-> << >>, tools |-> << >>, system |-> ""]
    /\ nextId = 1
    /\ mu = FALSE
    /\ nMsgs = 0
    /\ runCalls = 0
    /\ runExecs = 0
    /\ lastExec = Ok(<< >>, "none")

\* The connections that one Assistant may serve side by side.
SessionIDs == { "s1", "s2" }

\* initSessionLog that names the file without the session id.
FileNameShared(sessionID) == "sessions/session.jsonl"

\* initSessionLog: the file name holds the session id.
FileName(sessionID) == "sessions/" \o sessionID \o ".jsonl"

FileNames == { FileName(id) : id \in SessionIDs }

\* the state of a connection that has not been upgraded yet
NewSession(id) ==
    [ID |-> id, messages |-> << >>, logFile |-> FALSE, out |-> << >>,
     pc |-> "accept", turn |-> 0, nMsgs |-> 0, calls |-> 0]

InitSessionsIdle ==
    /\ sess = [id \in SessionIDs |-> NewSession(id)]
    /\ sessionFiles = [f \in FileNames |-> << >>]

\* No SendMessage has been called on its own.
NoUpstream == [net |-> "none", status |-> 0, body |-> ""]
NoResponse ==
    [ID |-> "", Type |-> "", Role |-> "", Content |-> << >>, Model |-> "",
     StopReason |-> "", Usage |-> [InputTokens |-> 0, OutputTokens |-> 0]]
NoReply == [hasResp |-> FALSE, resp |-> NoResponse, err |-> NoErr]
InitAdapterIdle ==
    /\ adapter = "anthropic"
    /\ upstream = NoUpstream
    /\ reply = NoReply

\* No conversion and no synthesis has been called on its own.
InitConvertIdle ==
    /\ convCase = "none"
    /\ convIn = << >>
    /\ convOut = << >>
InitSynthIdle ==
    /\ doc = << >>
    /\ parsed = [stage |-> "none", Tools |-> << >>, warnings |-> << >>, defs |-> << >>]

InitDispatchIdle ==
    /\ dName = ""
    /\ dParams = EmptyInput
    /\ dAuth = ""
    /\ dHost = NoReaction
    /\ dResult = Ok(<< >>, "none")
    /\ http = << >>

\* An Assistant built by New from a Config with an OpenAPI document of two
\* operations and a server URL; the log tool is always registered by New.
Init ==
    /\ apiTools = << GetUser, CreateUser >>
    /\ hostBaseURL = "http://host"
    /\ logTool = LogToolWith(<< "app.log" >>)
    /\ codeIndexTool = FALSE
    /\ logFile \in BOOLEAN
    /\ script \in { sc \in Scripts : sc.lead = 0 => sc.first = sc.last }
    /\ InitSession
    /\ InitAuthIdle
    /\ InitDispatchIdle
    /\ InitSessionsIdle
    /\ InitAdapterIdle
    /\ InitConvertIdle
    /\ InitSynthIdle

\* handleWebSocket up to its read loop: the session is created, session_start
\* is logged and session_info is sent.
Accept ==
    /\ pc = "accept"
    /\ audit' = logEvent(logFile, audit, "session_start", "")
    /\ out' = WriteJSON(out, "session_info", "")
    /\ pc' = "read"
    /\ UNCHANGED << assistantVars, authVars, sessionsVars, adapterVars, convertVars, synthVars, dispatchVars, procVars, backendVars, messages,
                    logFile, chatErr, mu, nMsgs, runCalls, runExecs, lastExec >>

\* ReadError that leaves the loop without a session_end record.
ReadErrorUnlogged ==
    /\ pc = "read"
    /\ audit' = audit
    /\ pc' = "closed"
    /\ UNCHANGED << assistantVars, authVars, sessionsVars, adapterVars, convertVars, synthVars, dispatchVars, procVars, backendVars, messages,
                    logFile, out, chatErr, mu, nMsgs, runCalls, runExecs, lastExec >>

\* conn.ReadJSON fails: session_end is logged and the loop is left.
ReadError ==
    /\ pc = "read"
    /\ audit' = logEvent(logFile, audit, "session_end", "connection_closed")
    /\ pc' = "closed"
    /\ UNCHANGED << assistantVars, authVars, sessionsVars, adapterVars, convertVars, synthVars, dispatchVars, procVars, backendVars, messages,
                    logFile, out, chatErr, mu, nMsgs, runCalls, runExecs, lastExec >>

\* ReadMessage by a reader that does not wait for processChat to return.
ReadMessageAnyTime ==
    /\ pc \in { "read", "blocks" }
    /\ nMsgs < MaxMsgs
    /\ ~mu
    /\ audit' = logEvent(logFile, audit, "user_message", "q" \o ToString(nMsgs + 1))
    /\ nMsgs' = nMsgs + 1
    /\ mu' = TRUE
    /\ pc' = "usermsg"
    /\ UNCHANGED << assistantVars, authVars, sessionsVars, adapterVars, convertVars, synthVars, dispatchVars, procVars, backendVars, messages,
                    logFile, out, chatErr, runCalls, runExecs, lastExec >>

\* conn.ReadJSON returns a client message: it is logged and the lock is taken.
ReadMessage ==
    /\ pc = "read"
    /\ nMsgs < MaxMsgs
    /\ ~mu
    /\ audit' = logEvent(logFile, audit, "user_message", "q" \o ToString(nMsgs + 1))
    /\ nMsgs' = nMsgs + 1
    /\ mu' = TRUE
    /\ pc' = "usermsg"
    /\ UNCHANGED << assistantVars, authVars, sessionsVars, adapterVars, convertVars, synthVars, dispatchVars, procVars, backendVars, messages,
                    logFile, out, chatErr, runCalls, runExecs, lastExec >>

\* AppendUserMessage that starts the history afresh with every client message.
AppendUserMessageFresh ==
    /\ pc = "usermsg"
    /\ messages' = << Message("user", << TextBlock("q" \o ToString(nMsgs)) >>) >>
    /\ mu' = FALSE
    /\ turn' = 0
    /\ chatErr' = NoErr
    /\ runCalls' = 0
    /\ runExecs' = 0
    /\ pc' = "turn"
    /\ UNCHANGED << assistantVars, authVars, sessionsVars, adapterVars, convertVars, synthVars, dispatchVars, backendVars, logFile, audit, out,
                    nMsgs, snapshot, response, idx, assistantContent, hasToolUse,
                    lastExec >>

\* The user message is appended, the lock released and processChat entered.
AppendUserMessage ==
    /\ pc = "usermsg"
    /\ messages' = Append(messages,
                     Message("user", << TextBlock("q" \o ToString(nMsgs)) >>))
    /\ mu' = FALSE
    /\ turn' = 0
    /\ chatErr' = NoErr
    /\ runCalls' = 0
    /\ runExecs' = 0
    /\ pc' = "turn"
    /\ UNCHANGED << assistantVars, authVars, sessionsVars, adapterVars, convertVars, synthVars, dispatchVars, backendVars, logFile, audit, out,
                    nMsgs, snapshot, response, idx, assistantContent, hasToolUse,
                    lastExec >>

\* AfterChat that drops the error instead of reporting it.
AfterChatSilent ==
    /\ pc = "returned"
    /\ audit' = audit
    /\ out' = WriteJSON(out, "done", "")
    /\ pc' = "read"
    /\ UNCHANGED << assistantVars, authVars, sessionsVars, adapterVars, convertVars, synthVars, dispatchVars, procVars, backendVars, messages,
                    logFile, chatErr, mu, nMsgs, runCalls, runExecs, lastExec >>

\* AfterChat that sends "done" only after a run without error.
AfterChatDoneOnSuccess ==
    /\ pc = "returned"
    /\ IF chatErr # NoErr
       THEN /\ audit' = logEvent(logFile, audit, "error", "")
            /\ out' = WriteJSON(out, "error", "Error")
       ELSE /\ audit' = audit
            /\ out' = WriteJSON(out, "done", "")
    /\ pc' = "read"
    /\ UNCHANGED << assistantVars, authVars, sessionsVars, adapterVars, convertVars, synthVars, dispatchVars, procVars, backendVars, messages,
                    logFile, chatErr, mu, nMsgs, runCalls, runExecs, lastExec >>

\* After processChat: an error is logged and sent as one "error" event; "done"
\* is sent in any case.
AfterChat ==
    /\ pc = "returned"
    /\ IF chatErr # NoErr
       THEN /\ audit' = logEvent(logFile, audit, "error", "")
            /\ out' = WriteJSON(WriteJSON(out, "error", "Error"), "done", "")
       ELSE /\ audit' = audit
            /\ out' = WriteJSON(out, "done", "")
    /\ pc' = "read"
    /\ UNCHANGED << assistantVars, authVars, sessionsVars, adapterVars, convertVars, synthVars, dispatchVars, procVars, backendVars, messages,
                    logFile, chatErr, mu, nMsgs, runCalls, runExecs, lastExec >>

\* ================================================================ processChat
\* TurnHead with the loop condition turn <= maxTurns.
TurnHeadOffByOne ==
    /\ pc = "turn"
    /\ IF turn <= maxTurns
       THEN /\ ~mu
            /\ mu' = TRUE
            /\ pc' = "snap"
       ELSE /\ mu' = mu
            /\ pc' = "returned"
    /\ UNCHANGED << assistantVars, authVars, sessionsVars, adapterVars, convertVars, synthVars, dispatchVars, procVars, backendVars, messages,
                    logFile, audit, out, chatErr, nMsgs, runCalls, runExecs,
                    lastExec >>

\* Loop head: the turn budget is checked and the lock taken for the snapshot;
\* with the budget used up processChat returns nil.
TurnHead ==
    /\ pc = "turn"
    /\ IF turn < maxTurns
       THEN /\ ~mu
            /\ mu' = TRUE
            /\ pc' = "snap"
       ELSE /\ mu' = mu
            /\ pc' = "returned"
    /\ UNCHANGED << assistantVars, authVars, sessionsVars, adapterVars, convertVars, synthVars, dispatchVars, procVars, backendVars, messages,
                    logFile, audit, out, chatErr, nMsgs, runCalls, runExecs,
                    lastExec >>

\* Snapshot that keeps the lock over the provider call.
SnapshotKeepsLock ==
    /\ pc = "snap"
    /\ snapshot' = messages
    /\ mu' = mu
    /\ pc' = "call"
    /\ UNCHANGED << assistantVars, authVars, sessionsVars, adapterVars, convertVars, synthVars, dispatchVars, backendVars, messages, logFile,
                    audit, out, chatErr, nMsgs, runCalls, runExecs, lastExec, turn,
                    response, idx, assistantContent, hasToolUse >>

\* messages := copy(session.messages); the lock is released.
Snapshot ==
    /\ pc = "snap"
    /\ snapshot' = messages
    /\ mu' = FALSE
    /\ pc' = "call"
    /\ UNCHANGED << assistantVars, authVars, sessionsVars, adapterVars, convertVars, synthVars, dispatchVars, backendVars, messages, logFile,
                    audit, out, chatErr, nMsgs, runCalls, runExecs, lastExec, turn,
                    response, idx, assistantContent, hasToolUse >>

\* The tool definitions processChat hands to the provider.
ChatTools == GetToolDefinitions(logTool, codeIndexTool)

\* a.provider.SendMessage(messages, tools, systemPrompt): an error makes
\* processChat return it; otherwise the block loop starts on response.Content.
ProviderCall ==
    /\ pc = "call"
    /\ LET shape == ShapeAt(script, nCalls)
       IN  /\ sent' = [messages |-> snapshot, tools |-> ChatTools,
                       system |-> systemPrompt]
           /\ nCalls' = nCalls + 1
           /\ runCalls' = runCalls + 1
           /\ IF shape.fail
              THEN /\ chatErr' = << "API request failed" >>
                   /\ pc' = "returned"
                   /\ UNCHANGED << response, idx, assistantContent, hasToolUse,
                                   nextId >>
              ELSE /\ response' = ResponseContent(shape, nextId)
                   /\ nextId' = nextId + Len(shape.types)
                   /\ idx' = 1
                   /\ assistantContent' = << >>
                   /\ hasToolUse' = FALSE
                   /\ pc' = "blocks"
                   /\ chatErr' = chatErr
    /\ UNCHANGED << assistantVars, authVars, sessionsVars, adapterVars, convertVars, synthVars, dispatchVars, script, messages, logFile, audit,
                    out, mu, nMsgs, runExecs, lastExec, turn, snapshot >>

\* TextStep that keeps the text back instead of writing it to the connection.
TextStepSilent ==
    /\ pc = "blocks"
    /\ idx <= Len(response)
    /\ response[idx].Type = "text"
    /\ out' = out
    /\ assistantContent' = Append(assistantContent, response[idx])
    /\ audit' = logEvent(logFile, audit, "assistant_message", response[idx].Text)
    /\ idx' = idx + 1
    /\ UNCHANGED << assistantVars, authVars, sessionsVars, adapterVars, convertVars, synthVars, dispatchVars, backendVars, messages, logFile,
                    chatErr, mu, nMsgs, runCalls, runExecs, lastExec, pc, turn,
                    snapshot, response, hasToolUse >>

\* A text block: sent to the client, kept for the assistant message, logged.
TextStep ==
    /\ pc = "blocks"
    /\ idx <= Len(response)
    /\ response[idx].Type = "text"
    /\ out' = WriteJSON(out, "text", response[idx].Text)
    /\ assistantContent' = Append(assistantContent, response[idx])
    /\ audit' = logEvent(logFile, audit, "assistant_message", response[idx].Text)
    /\ idx' = idx + 1
    /\ UNCHANGED << assistantVars, authVars, sessionsVars, adapterVars, convertVars, synthVars, dispatchVars, backendVars, messages, logFile,
                    chatErr, mu, nMsgs, runCalls, runExecs, lastExec, pc, turn,
                    snapshot, response, hasToolUse >>

\* The tool execution of processChat.
ChatExecute(name, input) == RegistryExecute(logTool, codeIndexTool, name, input)

\* ResultText that forgets the error.
ResultTextNoError(r) == r.result

\* The text that goes into the tool_result block.
ResultText(r) == IF r.err # NoErr THEN ErrorText(r.err) ELSE r.result

\* ToolUseStep that writes the tool_result record ahead of the tool_use record.
ToolUseStepResultFirst ==
    /\ pc = "blocks"
    /\ idx <= Len(response)
    /\ response[idx].Type = "tool_use"
    /\ LET block == response[idx]
           r == ChatExecute(block.Name, block.Input)
       IN  /\ lastExec' = r
           /\ audit' = logEvent(logFile,
                          logEvent(logFile, audit, "tool_result", block.ID),
                          "tool_use", block.ID)
    /\ hasToolUse' = TRUE
    /\ assistantContent' = Append(assistantContent, response[idx])
    /\ runExecs' = runExecs + 1
    /\ ~mu
    /\ mu' = TRUE
    /\ pc' = "toolappend"
    /\ UNCHANGED << assistantVars, authVars, sessionsVars, adapterVars, convertVars, synthVars, dispatchVars, backendVars, messages, logFile,
                    out, chatErr, nMsgs, runCalls, turn, snapshot, response, idx >>

\* A tool_use block, up to the lock: it is kept, logged, executed, and the
\* result is logged.
ToolUseStep ==
    /\ pc = "blocks"
    /\ idx <= Len(response)
    /\ response[idx].Type = "tool_use"
    /\ LET block == response[idx]
           r == ChatExecute(block.Name, block.Input)
       IN  /\ lastExec' = r
           /\ audit' = logEvent(logFile,
                          logEvent(logFile, audit, "tool_use", block.ID),
                          "tool_result", block.ID)
    /\ hasToolUse' = TRUE
    /\ assistantContent' = Append(assistantContent, response[idx])
    /\ runExecs' = runExecs + 1
    /\ ~mu
    /\ mu' = TRUE
    /\ pc' = "toolappend"
    /\ UNCHANGED << assistantVars, authVars, sessionsVars, adapterVars, convertVars, synthVars, dispatchVars, backendVars, messages, logFile,
                    out, chatErr, nMsgs, runCalls, turn, snapshot, response, idx >>

\* ToolUseAppend on a snapshot that shares the session's slice: the append
\* shows in the copy handed to the provider.
ToolUseAppendAliased ==
    /\ pc = "toolappend"
    /\ messages' = messages
          \o << Message("assistant", assistantContent),
                Message("user", << ToolResultBlock(response[idx].ID,
                                                   ResultText(lastExec)) >>) >>
    /\ snapshot' = messages'
    /\ mu' = FALSE
    /\ idx' = idx + 1
    /\ pc' = "blocks"
    /\ UNCHANGED << assistantVars, authVars, sessionsVars, adapterVars, convertVars, synthVars, dispatchVars, backendVars, logFile, audit, out,
                    chatErr, nMsgs, runCalls, runExecs, lastExec, turn,
                    response, assistantContent, hasToolUse >>

\* Under the lock: the assistant message and the tool_result message are
\* appended; the lock is released and the block loop goes on.
ToolUseAppend ==
    /\ pc = "toolappend"
    /\ messages' = messages
          \o << Message("assistant", assistantContent),
                Message("user", << ToolResultBlock(response[idx].ID,
                                                   ResultText(lastExec)) >>) >>
    /\ mu' = FALSE
    /\ idx' = idx + 1
    /\ pc' = "blocks"
    /\ UNCHANGED << assistantVars, authVars, sessionsVars, adapterVars, convertVars, synthVars, dispatchVars, backendVars, logFile, audit, out,
                    chatErr, nMsgs, runCalls, runExecs, lastExec, turn, snapshot,
                    response, assistantContent, hasToolUse >>

\* EndOfBlocks without the break: a turn without tool use appends its message
\* with the next turn's snapshot lock and goes round the loop again.
EndOfBlocksNoBreak ==
    /\ pc = "blocks"
    /\ idx > Len(response)
    /\ turn' = turn + 1
    /\ pc' = "turn"
    /\ messages' = IF hasToolUse THEN messages
                   ELSE Append(messages, Message("assistant", assistantContent))
    /\ UNCHANGED << assistantVars, authVars, sessionsVars, adapterVars, convertVars, synthVars, dispatchVars, backendVars, logFile, mu,
                    audit, out, chatErr, nMsgs, runCalls, runExecs, lastExec,
                    snapshot, response, idx, assistantContent, hasToolUse >>

\* After the last block: a turn with tool use starts the next turn; a turn
\* without takes the lock for the final append.
EndOfBlocks ==
    /\ pc = "blocks"
    /\ idx > Len(response)
    /\ IF hasToolUse
       THEN /\ turn' = turn + 1
            /\ mu' = mu
            /\ pc' = "turn"
       ELSE /\ ~mu
            /\ mu' = TRUE
            /\ turn' = turn
            /\ pc' = "final"
    /\ UNCHANGED << assistantVars, authVars, sessionsVars, adapterVars, convertVars, synthVars, dispatchVars, backendVars, messages, logFile,
                    audit, out, chatErr, nMsgs, runCalls, runExecs, lastExec,
                    snapshot, response, idx, assistantContent, hasToolUse >>

\* The assistant message of a turn without tool use is appended; break, return nil.
FinalAppend ==
    /\ pc = "final"
    /\ messages' = Append(messages, Message("assistant", assistantContent))
    /\ mu' = FALSE
    /\ pc' = "returned"
    /\ UNCHANGED << assistantVars, authVars, sessionsVars, adapterVars, convertVars, synthVars, dispatchVars, backendVars, logFile, audit, out,
                    chatErr, nMsgs, runCalls, runExecs, lastExec, procVars >>

Next ==
    \/ Accept
    \/ ReadMessage
    \/ AppendUserMessage
    \/ ReadError
    \/ TurnHead
    \/ Snapshot
    \/ ProviderCall
    \/ TextStep
    \/ ToolUseStep
    \/ ToolUseAppend
    \/ EndOfBlocks
    \/ FinalAppend
    \/ AfterChat

Spec == Init /\ [][Next]_vars

\* The goroutine of a connection keeps running: once a client message is
\* read, the steps of the handler and of processChat are taken (the tools
\* and the provider call return).  Nothing is assumed about the client.
ChatSteps ==
    \/ AppendUserMessage
    \/ TurnHead
    \/ Snapshot
    \/ ProviderCall
    \/ TextStep
    \/ ToolUseStep
    \/ ToolUseAppend
    \/ EndOfBlocks
    \/ FinalAppend
    \/ AfterChat

\* The same connection under backends with shorter responses and scripts.
LiveBlocks == 1     \* longest response.Content of these backends
LiveLead   == 1     \* most repetitions of their script's first entry
LiveShapes == { sh \in Shapes : Len(sh.types) <= LiveBlocks }
LiveScripts ==
    { [lead |-> k, first |-> a, last |-> b] :
        k \in 0..LiveLead, a \in LiveShapes, b \in LiveShapes }
InitLive ==
    /\ apiTools = << GetUser, CreateUser >>
    /\ hostBaseURL = "http://host"
    /\ logTool = LogToolWith(<< "app.log" >>)
    /\ codeIndexTool = FALSE
    /\ logFile \in BOOLEAN
    /\ script \in { sc \in LiveScripts : sc.lead = 0 => sc.first = sc.last }
    /\ InitSession
    /\ InitAuthIdle
    /\ InitDispatchIdle
    /\ InitSessionsIdle
    /\ InitAdapterIdle
    /\ InitConvertIdle
    /\ InitSynthIdle

LiveSpec == InitLive /\ [][Next]_vars /\ WF_vars(ChatSteps)

\* ==================================================== several connections
\* handleWebSocket and processChat once more, as functions of one session's
\* state, so that several connections can be served side by side.  A step is
\* a whole stretch of the handler between two inputs (the upgrade, a client
\* message, a provider response, the read error); it yields the session and
\* the content of its log file.
\* handleWebSocket that gives the connection up when the log cannot be opened.
sessAcceptOrClose(s, log, opened) ==
    [s   |-> [s EXCEPT !.logFile = opened,
                       !.out = IF opened THEN WriteJSON(@, "session_info", "") ELSE @,
                       !.pc = IF opened THEN "read" ELSE "closed"],
     log |-> logEvent(opened, log, "session_start", "")]

\* handleWebSocket up to the read loop; opened: initSessionLog succeeded.
sessAccept(s, log, opened) ==
    [s   |-> [s EXCEPT !.logFile = opened,
                       !.out = WriteJSON(@, "session_info", ""),
                       !.pc = "read"],
     log |-> logEvent(opened, log, "session_start", "")]

\* the read loop on a client message, up to the call of processChat
sessUserMessage(s, log, text) ==
    [s   |-> [s EXCEPT !.messages = Append(@, Message("user", << TextBlock(text) >>)),
                       !.nMsgs = @ + 1,
                       !.turn = 0,
                       !.pc = "chat"],
     log |-> logEvent(s.logFile, log, "user_message", text)]

\* the read loop on a read error
sessEnd(s, log) ==
    [s   |-> [s EXCEPT !.pc = "closed"],
     log |-> logEvent(s.logFile, log, "session_end", "connection_closed")]

\* the block loop of processChat from block i on; st holds the history, the
\* connection, the log, assistantContent and hasToolUse
RECURSIVE sessBlocks(_, _, _, _, _, _)
sessBlocks(st, open, lt, cit, content, i) ==
    IF i > Len(content) THEN st
    ELSE LET block == content[i]
             ac == Append(st.assistantContent, block)
         IN  IF block.Type = "text"
             THEN sessBlocks([st EXCEPT
                     !.out = WriteJSON(@, "text", block.Text),
                     !.assistantContent = ac,
                     !.log = logEvent(open, @, "assistant_message", block.Text)],
                   open, lt, cit, content, i + 1)
             ELSE LET r == RegistryExecute(lt, cit, block.Name, block.Input)
                  IN  sessBlocks([st EXCEPT
                          !.hasToolUse = TRUE,
                          !.assistantContent = ac,
                          !.log = logEvent(open,
                                     logEvent(open, @, "tool_use", block.ID),
                                     "tool_result", block.ID),
                          !.messages = @ \o
                              << Message("assistant", ac),
                                 Message("user",
                                    << ToolResultBlock(block.ID, ResultText(r)) >>) >>],
                        open, lt, cit, content, i + 1)

\* one turn of processChat on the provider's answer and, when the turn ends
\* the run, the rest of the read loop's body (the error and done events)
sessTurn(s, log, lt, cit, failed, content) ==
    IF failed
    THEN [s   |-> [s EXCEPT
                     !.calls = @ + 1,
                     !.out = WriteJSON(WriteJSON(@, "error",
                                          ErrorText(<< "API request failed" >>)),
                                       "done", ""),
                     !.pc = "read"],
          log |-> logEvent(s.logFile, log, "error", "")]
    ELSE LET st == sessBlocks([messages |-> s.messages, out |-> s.out, log |-> log,
                               assistantContent |-> << >>, hasToolUse |-> FALSE],
                              s.logFile, lt, cit, content, 1)
             over == ~st.hasToolUse \/ s.turn + 1 >= maxTurns
         IN  [s   |-> [s EXCEPT
                         !.calls = @ + 1,
                         !.messages =
                             IF st.hasToolUse THEN st.messages
                             ELSE Append(st.messages,
                                         Message("assistant", st.assistantContent)),
                         !.out = IF over THEN WriteJSON(st.out, "done", "") ELSE st.out,
                         !.turn = IF st.hasToolUse THEN @ + 1 ELSE @,
                         !.pc = IF over THEN "read" ELSE "chat"],
              log |-> st.log]

\* The content of the provider's answer to a session's call: the blocks are
\* numbered on from the length of the session's history.
SessContent(s, shape) == ResponseContent(shape, Len(s.messages))

mainVars == << procVars, backendVars, dispatchVars, messages, logFile, audit, out,
               pc, chatErr, mu, nMsgs, runCalls, runExecs, lastExec >>

\* The connections are served by one Assistant; each gets its own session id.
InitSessions ==
    /\ apiTools = << GetUser, CreateUser >>
    /\ hostBaseURL = "http://host"
    /\ logTool = LogToolWith(<< "app.log" >>)
    /\ codeIndexTool = FALSE
    /\ logFile = FALSE
    /\ script = [lead |-> 0, first |-> [fail |-> TRUE, types |-> << >>],
                 last |-> [fail |-> TRUE, types |-> << >>]]
    /\ InitSession
    /\ InitAuthIdle
    /\ InitDispatchIdle
    /\ InitSessionsIdle
    /\ InitAdapterIdle
    /\ InitConvertIdle
    /\ InitSynthIdle

\* what the backend answers to the calls of interleaved connections
PairShapes ==
    { [fail |-> TRUE, types |-> << >>],
      [fail |-> FALSE, types |-> << "text" >>],
      [fail |-> FALSE, types |-> << "text", "tool_use" >>] }

\* the step of one connection: the session and its file are replaced
SessStep(id, r) ==
    /\ sess' = [sess EXCEPT ![id] = r.s]
    /\ sessionFiles' = [sessionFiles EXCEPT ![FileName(id)] = r.log]
    /\ UNCHANGED << assistantVars, authVars, adapterVars, convertVars, synthVars, mainVars >>

PairAccept(id) ==
    /\ sess[id].pc = "accept"
    /\ \E opened \in BOOLEAN :
          SessStep(id, sessAccept(sess[id], sessionFiles[FileName(id)], opened))

PairUserMessage(id) ==
    /\ sess[id].pc = "read"
    /\ sess[id].nMsgs < MaxMsgs
    /\ SessStep(id, sessUserMessage(sess[id], sessionFiles[FileName(id)],
                                    "q" \o ToString(sess[id].nMsgs + 1)))

PairTurn(id) ==
    /\ sess[id].pc = "chat"
    /\ sess[id].calls < MaxSessCalls
    /\ \E shape \in PairShapes :
          SessStep(id, sessTurn(sess[id], sessionFiles[FileName(id)], logTool, codeIndexTool,
                                shape.fail, SessContent(sess[id], shape)))

PairEnd(id) ==
    /\ sess[id].pc = "read"
    /\ SessStep(id, sessEnd(sess[id], sessionFiles[FileName(id)]))

PairNext ==
    \E id \in SessionIDs :
        \/ PairAccept(id)
        \/ PairUserMessage(id)
        \/ PairTurn(id)
        \/ PairEnd(id)

PairSpec == InitSessions /\ [][PairNext]_vars

\* Two connections that get the same inputs at the same time: s1 opens its
\* log file, s2 fails to.
TwinStep(r1, r2) ==
    /\ sess' = [sess EXCEPT !["s1"] = r1.s, !["s2"] = r2.s]
    /\ sessionFiles' = [sessionFiles EXCEPT ![FileName("s1")] = r1.log, ![FileName("s2")] = r2.log]
    /\ UNCHANGED << assistantVars, authVars, adapterVars, convertVars, synthVars, mainVars >>

TwinAccept ==
    /\ sess["s1"].pc = "accept"
    /\ sess["s2"].pc = "accept"
    /\ TwinStep(sessAccept(sess["s1"], sessionFiles[FileName("s1")], TRUE),
                sessAccept(sess["s2"], sessionFiles[FileName("s2")], FALSE))

TwinUserMessage ==
    /\ sess["s1"].pc = "read"
    /\ sess["s2"].pc = "read"
    /\ sess["s1"].nMsgs < MaxMsgs
    /\ LET text == "q" \o ToString(sess["s1"].nMsgs + 1)
       IN  TwinStep(sessUserMessage(sess["s1"], sessionFiles[FileName("s1")], text),
                    sessUserMessage(sess["s2"], sessionFiles[FileName("s2")], text))

TwinTurn ==
    /\ sess["s1"].pc = "chat"
    /\ sess["s2"].pc = "chat"
    /\ sess["s1"].calls < MaxSessCalls
    /\ \E shape \in Shapes :
          LET content == SessContent(sess["s1"], shape)
          IN  TwinStep(sessTurn(sess["s1"], sessionFiles[FileName("s1")], logTool,
                                codeIndexTool, shape.fail, content),
                       sessTurn(sess["s2"], sessionFiles[FileName("s2")], logTool,
                                codeIndexTool, shape.fail, content))

TwinEnd ==
    /\ sess["s1"].pc = "read"
    /\ sess["s2"].pc = "read"
    /\ TwinStep(sessEnd(sess["s1"], sessionFiles[FileName("s1")]),
                sessEnd(sess["s2"], sessionFiles[FileName("s2")]))

TwinNext ==
    \/ TwinAccept
    \/ TwinUserMessage
    \/ TwinTurn
    \/ TwinEnd

TwinSpec == InitSessions /\ [][TwinNext]_vars

\* ========================================================= provider adapters
\* JSON values, as encoding/json decodes them into interface{}.
NoFields == [f \in {} |-> ""]
JNull == [k |-> "null", s |-> "", n |-> 0, items |-> << >>, fields |-> NoFields]
JStr(s) == [k |-> "string", s |-> s, n |-> 0, items |-> << >>, fields |-> NoFields]
JNum(n) == [k |-> "number", s |-> "", n |-> n, items |-> << >>, fields |-> NoFields]
JArr(items) == [k |-> "array", s |-> "", n |-> 0, items |-> items, fields |-> NoFields]
JObj(fields) == [k |-> "object", s |-> "", n |-> 0, items |-> << >>, fields |-> fields]

\* m[key] of a decoded object: the absent key and null both give nil
Field(v, key) == IF key \in DOMAIN v.fields THEN v.fields[key] ELSE JNull
\* s, _ := x.(string)
StrOf(v) == IF v.k = "string" THEN v.s ELSE ""
\* n, ok := x.(float64); int(n) when ok
NumOf(v) == IF v.k = "number" THEN v.n ELSE 0

\* The texts the upstream may answer with, and the argument texts inside of
\* them.  JSON texts are written with ' for the double quote.
BodyHtml == "<html>502 Bad Gateway</html>"
BodyTruncated == "{'id':'m1','content':["
BodyArray == "[]"
BodyNull == "null"
BodyEmptyObject == "{}"
BodyError == "{'error':{'message':'overloaded'}}"
BodyNoChoices == "{'id':'c1','choices':[]}"
BodyContentString == "{'content':'hi'}"
ArgsMainGo == "{'file_path':'main.go'}"
ArgsId == "{'id':7}"
ArgsTwo == "{'id':7,'name':'bob'}"
ArgsTruncated == "{'file_path':"
ArgsArray == "[1]"
BodyChat ==
    "{'id':'c1','model':'gpt','choices':[{'message':{'content':'hi','tool_calls':"
    \o "[{'id':'call_1','type':'function','function':{'name':'read_file',"
    \o "'arguments':'{\\'file_path\\':\\'main.go\\'}'}}]},'finish_reason':"
    \o "'tool_calls'}],'usage':{'prompt_tokens':3,'completion_tokens':5}}"
BodyMessage ==
    "{'id':'m1','type':'message','role':'assistant','content':[{'type':'text',"
    \o "'text':'hi'},{'type':'tool_use','id':'toolu_1','name':'read_file',"
    \o "'input':{'file_path':'main.go'}}],'model':'claude','stop_reason':"
    \o "'tool_use','usage':{'input_tokens':3,'output_tokens':5}}"
Bodies ==
    { BodyHtml, BodyTruncated, BodyArray, BodyNull, BodyEmptyObject, BodyError,
      BodyNoChoices, BodyContentString, BodyChat, BodyMessage }

\* The JSON value of a text, for the texts above; every other text is taken
\* as not being JSON.
NotJSON == [ok |-> FALSE, value |-> JNull]
Parsed(v) == [ok |-> TRUE, value |-> v]
Decode(text) ==
    CASE text = BodyArray -> Parsed(JArr(<< >>))
      [] text = BodyNull -> Parsed(JNull)
      [] text = BodyEmptyObject -> Parsed(JObj(NoFields))
      [] text = BodyError ->
            Parsed(JObj([error |-> JObj([message |-> JStr("overloaded")])]))
      [] text = BodyNoChoices ->
            Parsed(JObj([id |-> JStr("c1"), choices |-> JArr(<< >>)]))
      [] text = BodyContentString -> Parsed(JObj([content |-> JStr("hi")]))
      [] text = ArgsMainGo -> Parsed(JObj([file_path |-> JStr("main.go")]))
      [] text = ArgsId -> Parsed(JObj([id |-> JNum(7)]))
      [] text = ArgsTwo -> Parsed(JObj([id |-> JNum(7), name |-> JStr("bob")]))
      [] text = ArgsArray -> Parsed(JArr(<< JNum(1) >>))
      [] text = BodyChat ->
            Parsed(JObj(
              [id |-> JStr("c1"),
               model |-> JStr("gpt"),
               choices |-> JArr(<<
                 JObj([message |-> JObj(
                         [content |-> JStr("hi"),
                          tool_calls |-> JArr(<<
                            JObj([id |-> JStr("call_1"),
                                  type |-> JStr("function"),
                                  function |-> JObj(
                                    [name |-> JStr("read_file"),
                                     arguments |-> JStr(ArgsMainGo)])]) >>)]),
                       finish_reason |-> JStr("tool_calls")]) >>),
               usage |-> JObj([prompt_tokens |-> JNum(3),
                               completion_tokens |-> JNum(5)])]))
      [] text = BodyMessage ->
            Parsed(JObj(
              [id |-> JStr("m1"),
               type |-> JStr("message"),
               role |-> JStr("assistant"),
               content |-> JArr(<<
                 JObj([type |-> JStr("text"), text |-> JStr("hi")]),
                 JObj([type |-> JStr("tool_use"), id |-> JStr("toolu_1"),
                       name |-> JStr("read_file"),
                       input |-> JObj([file_path |-> JStr("main.go")])]) >>),
               model |-> JStr("claude"),
               stop_reason |-> JStr("tool_use"),
               usage |-> JObj([input_tokens |-> JNum(3),
                               output_tokens |-> JNum(5)])]))
      [] OTHER -> NotJSON

\* ArgsInput that keeps whatever value the text holds.
ArgsInputAny(v) ==
    IF v.k = "string" /\ Decode(v.s).ok THEN Decode(v.s).value ELSE JNull

\* json.Unmarshal([]byte(argsStr), &input) with input a nil map: the map of
\* the text's object (a JObj), nil (JNull) when the text is no object
ArgsInput(v) ==
    IF v.k = "string" /\ Decode(v.s).ok /\ Decode(v.s).value.k = "object"
    THEN Decode(v.s).value
    ELSE JNull

Response(id, content, model, stopReason, inTokens, outTokens) ==
    [ID |-> id, Type |-> "message", Role |-> "assistant", Content |-> content,
     Model |-> model, StopReason |-> stopReason,
     Usage |-> [InputTokens |-> inTokens, OutputTokens |-> outTokens]]

\* IsToolCall that asks for an object only.
IsToolCallObject(tc) == tc.k = "object"

\* a tool call that convertFromOpenAIFormat turns into a block
IsToolCall(tc) == tc.k = "object" /\ Field(tc, "function").k = "object"

\* convertFromOpenAIFormat: the blocks of the first choice's message
ChoiceContent(choice) ==
    LET message == Field(choice, "message")
        text == StrOf(Field(message, "content"))
        calls == IF Field(message, "tool_calls").k = "array"
                 THEN SelectSeq(Field(message, "tool_calls").items, IsToolCall)
                 ELSE << >>
    IN  IF message.k # "object" THEN << >>
        ELSE (IF text # "" THEN << TextBlock(text) >> ELSE << >>)
             \o [i \in 1..Len(calls) |->
                   ToolUseBlock(StrOf(Field(calls[i], "id")),
                                StrOf(Field(Field(calls[i], "function"), "name")),
                                ArgsInput(Field(Field(calls[i], "function"),
                                                "arguments")))]

\* StopReasonOf that maps nothing.
StopReasonOfItself(finishReason) == finishReason

\* convertFromOpenAIFormat: the stop reason of a finish_reason
StopReasonOf(finishReason) ==
    CASE finishReason = "tool_calls" -> "tool_use"
      [] finishReason = "stop" -> "end_turn"
      [] OTHER -> finishReason

\* convertFromOpenAIFormat on the decoded map; it never returns an error
convertFromOpenAIFormat(openAIResp) ==
    LET choices == Field(openAIResp, "choices")
        first == IF choices.k = "array" /\ Len(choices.items) > 0
                 THEN choices.items[1] ELSE JNull
        usage == Field(openAIResp, "usage")
    IN  Response(StrOf(Field(openAIResp, "id")),
                 IF first.k = "object" THEN ChoiceContent(first) ELSE << >>,
                 StrOf(Field(openAIResp, "model")),
                 IF first.k = "object"
                 THEN StopReasonOf(StrOf(Field(first, "finish_reason"))) ELSE "",
                 NumOf(Field(usage, "prompt_tokens")),
                 NumOf(Field(usage, "completion_tokens")))

\* json.Unmarshal into a Go value of the kind: null leaves it alone, any
\* other kind of JSON value is a type error
Fits(v, kind) == v.k \in { kind, "null" }

\* json.Unmarshal of one element of "content" into a ContentBlock
BlockFits(b) ==
    /\ Fits(b, "object")
    /\ \A f \in { "type", "text", "id", "name", "tool_use_id", "content" } :
          Fits(Field(b, f), "string")
    /\ Fits(Field(b, "input"), "object")

AnthropicBlock(b) ==
    [Type |-> StrOf(Field(b, "type")), Text |-> StrOf(Field(b, "text")),
     ID |-> StrOf(Field(b, "id")), Name |-> StrOf(Field(b, "name")),
     Input |-> Field(b, "input"),
     ToolUseID |-> StrOf(Field(b, "tool_use_id")),
     Content |-> IF StrOf(Field(b, "content")) = "" THEN << >>
                 ELSE << StrOf(Field(b, "content")) >>]

\* json.Unmarshal(body, &response) with response a Response: whether the
\* value fits the struct
ResponseFits(v) ==
    /\ Fits(v, "object")
    /\ \A f \in { "id", "type", "role", "model", "stop_reason" } :
          Fits(Field(v, f), "string")
    /\ Fits(Field(v, "content"), "array")
    /\ \A i \in 1..Len(Field(v, "content").items) :
          BlockFits(Field(v, "content").items[i])
    /\ Fits(Field(v, "usage"), "object")
    /\ Fits(Field(Field(v, "usage"), "input_tokens"), "number")
    /\ Fits(Field(Field(v, "usage"), "output_tokens"), "number")

\* the Response that json.Unmarshal leaves in a zero Response
AnthropicResponse(v) ==
    [ID |-> StrOf(Field(v, "id")), Type |-> StrOf(Field(v, "type")),
     Role |-> StrOf(Field(v, "role")),
     Content |-> [i \in 1..Len(Field(v, "content").items) |->
                    AnthropicBlock(Field(v, "content").items[i])],
     Model |-> StrOf(Field(v, "model")),
     StopReason |-> StrOf(Field(v, "stop_reason")),
     Usage |-> [InputTokens |-> NumOf(Field(Field(v, "usage"), "input_tokens")),
                OutputTokens |-> NumOf(Field(Field(v, "usage"), "output_tokens"))]]

StatusOK == 200

\* what httpClient.Do and io.ReadAll may meet
Statuses == { 200, 201, 204, 301, 400, 401, 429, 500 }
Upstreams ==
    { [net |-> "refused", status |-> 0, body |-> ""] }
    \cup { [net |-> "reset", status |-> st, body |-> ""] : st \in Statuses }
    \cup { [net |-> "ok", status |-> st, body |-> b] : st \in Statuses, b \in Bodies }

Failed(err) == [hasResp |-> FALSE, resp |-> NoResponse, err |-> err]
Returned(resp) == [hasResp |-> TRUE, resp |-> resp, err |-> NoErr]

\* SendMessage of both adapters from httpClient.Do on
TransportOutcome(up) ==
    IF up.net = "refused"
    THEN Failed(<< "failed to send request: ", "connection refused" >>)
    ELSE IF up.net = "reset"
    THEN Failed(<< "failed to read response: ", "unexpected EOF" >>)
    ELSE IF up.status # StatusOK
    THEN Failed(<< "API request failed with status ", ToString(up.status), ": ",
                   up.body >>)
    ELSE NoReply

\* AnthropicProvider.SendMessage
AnthropicSendMessage(up) ==
    IF up.net # "ok" \/ up.status # StatusOK THEN TransportOutcome(up)
    ELSE IF ~Decode(up.body).ok \/ ~ResponseFits(Decode(up.body).value)
    THEN Failed(<< "failed to unmarshal response: ", up.body >>)
    ELSE Returned(AnthropicResponse(Decode(up.body).value))

\* OpenAICompatibleProvider.SendMessage
OpenAISendMessage(up) ==
    IF up.net # "ok" \/ up.status # StatusOK THEN TransportOutcome(up)
    ELSE IF ~Decode(up.body).ok \/ ~Fits(Decode(up.body).value, "object")
    THEN Failed(<< "failed to unmarshal response: ", up.body >>)
    ELSE Returned(convertFromOpenAIFormat(Decode(up.body).value))

Adapters == { "anthropic", "openai" }

SendMessage(which, up) ==
    IF which = "anthropic" THEN AnthropicSendMessage(up) ELSE OpenAISendMessage(up)

InitAdapter ==
    /\ apiTools = << GetUser, CreateUser >>
    /\ hostBaseURL = "http://host"
    /\ logTool = LogToolWith(<< "app.log" >>)
    /\ codeIndexTool = FALSE
    /\ logFile = FALSE
    /\ script = [lead |-> 0, first |-> [fail |-> TRUE, types |-> << >>],
                 last |-> [fail |-> TRUE, types |-> << >>]]
    /\ InitSession
    /\ InitAuthIdle
    /\ InitDispatchIdle
    /\ InitSessionsIdle
    /\ adapter \in Adapters
    /\ upstream = NoUpstream
    /\ reply = NoReply
    /\ InitConvertIdle
    /\ InitSynthIdle

\* One call of SendMessage (the adapters keep no state between calls).
Send ==
    \E up \in Upstreams :
        /\ upstream' = up
        /\ reply' = SendMessage(adapter, up)
        /\ UNCHANGED << assistantVars, authVars, sessionsVars, convertVars, synthVars, mainVars, adapter >>

AdapterNext == Send

AdapterSpec == InitAdapter /\ [][AdapterNext]_vars

\* ================================================ chat-completion conversions
\* A []map[string]interface{} built by the code; encoding/json writes it as
\* an array and reads an array back as []interface{}.
GoMaps(items) == [k |-> "maps", s |-> "", n |-> 0, items |-> items, fields |-> NoFields]

\* The keys of the argument maps, in the order json.Marshal writes them.
KeyOrder == << "file_path", "id", "name" >>

\* json.Marshal of a string or number
EncodeScalar(v) ==
    CASE v.k = "string" -> "'" \o v.s \o "'"
      [] v.k = "number" -> ToString(v.n)
      [] OTHER -> "null"

\* json.Marshal of the entries of a map from key number i on
RECURSIVE EncodeFields(_, _, _)
EncodeFields(fields, i, first) ==
    IF i > Len(KeyOrder) THEN ""
    ELSE IF KeyOrder[i] \notin DOMAIN fields THEN EncodeFields(fields, i + 1, first)
    ELSE (IF first THEN "" ELSE ",")
         \o "'" \o KeyOrder[i] \o "':" \o EncodeScalar(fields[KeyOrder[i]])
         \o EncodeFields(fields, i + 1, FALSE)

\* mustMarshalJSON that writes every map as the empty object.
mustMarshalJSONEmpty(input) == "{}"

\* mustMarshalJSON of a block's Input: a nil map is no nil interface, and
\* json.Marshal writes it as null
mustMarshalJSON(input) ==
    IF input.k = "null" THEN "null"
    ELSE "{" \o EncodeFields(input.fields, 1, TRUE) \o "}"

\* the pieces of a tool result's Content as one string
RECURSIVE FlattenPieces(_)
FlattenPieces(pieces) ==
    IF pieces = << >> THEN "" ELSE Head(pieces) \o FlattenPieces(Tail(pieces))

\* convertToOpenAIFormat: one entry of toolCalls
OpenAIToolCall(block) ==
    JObj([id |-> JStr(block.ID),
          type |-> JStr("function"),
          function |-> JObj([name |-> JStr(block.Name),
                             arguments |-> JStr(mustMarshalJSON(block.Input))])])

\* convertToOpenAIFormat: the loop over the blocks of one message, from block
\* i on; acc holds textContent, toolCalls and toolCallID
RECURSIVE BlocksFold(_, _, _)
BlocksFold(content, i, acc) ==
    IF i > Len(content) THEN acc
    ELSE LET block == content[i]
         IN  BlocksFold(content, i + 1,
               CASE block.Type = "text" ->
                      [acc EXCEPT !.textContent = @ \o block.Text]
                 [] block.Type = "tool_use" ->
                      [acc EXCEPT !.toolCalls = Append(@, OpenAIToolCall(block))]
                 [] block.Type = "tool_result" ->
                      [acc EXCEPT !.toolCallID = block.ToolUseID,
                                  !.textContent = FlattenPieces(block.Content)]
                 [] OTHER -> acc)

\* convertToOpenAIFormat that makes a tool message of every user message.
OpenAIMessageAlwaysTool(msg) ==
    LET acc == BlocksFold(msg.Content, 1,
                          [textContent |-> "", toolCalls |-> << >>, toolCallID |-> ""])
    IN  IF msg.Role = "assistant" /\ Len(acc.toolCalls) > 0
        THEN << JObj([role |-> JStr("assistant"), tool_calls |-> GoMaps(acc.toolCalls)]) >>
        ELSE << JObj([role |-> JStr("tool"),
                      tool_call_id |-> JStr(acc.toolCallID),
                      content |-> JStr(acc.textContent)]) >>

\* convertToOpenAIFormat: the messages (none or one) made of one message
OpenAIMessage(msg) ==
    LET acc == BlocksFold(msg.Content, 1,
                          [textContent |-> "", toolCalls |-> << >>, toolCallID |-> ""])
    IN  IF msg.Role = "assistant" /\ Len(acc.toolCalls) > 0
        THEN << JObj(IF acc.textContent # ""
                     THEN [role |-> JStr("assistant"),
                           tool_calls |-> GoMaps(acc.toolCalls),
                           content |-> JStr(acc.textContent)]
                     ELSE [role |-> JStr("assistant"),
                           tool_calls |-> GoMaps(acc.toolCalls)]) >>
        ELSE IF msg.Role = "user" /\ acc.toolCallID # ""
        THEN << JObj([role |-> JStr("tool"),
                      tool_call_id |-> JStr(acc.toolCallID),
                      content |-> JStr(acc.textContent)]) >>
        ELSE IF acc.textContent # ""
        THEN << JObj([role |-> JStr(msg.Role), content |-> JStr(acc.textContent)]) >>
        ELSE << >>

RECURSIVE convertToOpenAIFormat(_)
convertToOpenAIFormat(msgs) ==
    IF msgs = << >> THEN << >>
    ELSE OpenAIMessage(Head(msgs)) \o convertToOpenAIFormat(Tail(msgs))

\* convertToOpenAITools; of a tool definition the model keeps the name
convertToOpenAITools(tools) ==
    [i \in 1..Len(tools) |->
        JObj([type |-> JStr("function"),
              function |-> JObj([name |-> JStr(tools[i].Name)])])]

\* OpenAIRequest that puts the system message behind the history.
OpenAIRequestSystemLast(model, msgs, tools, system) ==
    [model |-> model,
     messages |-> convertToOpenAIFormat(msgs)
                  \o (IF system # ""
                      THEN << JObj([role |-> JStr("system"), content |-> JStr(system)]) >>
                      ELSE << >>),
     hasTools |-> Len(tools) > 0,
     tools |-> convertToOpenAITools(tools)]

\* OpenAICompatibleProvider.SendMessage up to json.Marshal: the req map
OpenAIRequest(model, msgs, tools, system) ==
    [model |-> model,
     messages |-> (IF system # ""
                   THEN << JObj([role |-> JStr("system"), content |-> JStr(system)]) >>
                   ELSE << >>)
                  \o convertToOpenAIFormat(msgs),
     hasTools |-> Len(tools) > 0,
     tools |-> convertToOpenAITools(tools)]

\* What a value built by the code is after json.Marshal and json.Unmarshal
\* into interface{}: slices of maps come back as []interface{}.
RECURSIVE ViaJSON(_)
ViaJSON(v) ==
    CASE v.k \in { "maps", "array" } ->
           JArr([i \in 1..Len(v.items) |-> ViaJSON(v.items[i])])
      [] v.k = "object" -> JObj([f \in DOMAIN v.fields |-> ViaJSON(v.fields[f])])
      [] OTHER -> v

\* ---- the inputs of the conversions
MaxHist == 2        \* longest history handed to the outbound conversion
MaxCalls == 2       \* longest tool_calls array of a chat completion

ArgMaps ==
    { JNull, JObj(NoFields), JObj([file_path |-> JStr("main.go")]),
      JObj([id |-> JNum(7)]), JObj([id |-> JNum(7), name |-> JStr("bob")]) }

\* The messages a history of the chat-completion adapter can hold: what the
\* client sent (any text), what convertFromOpenAIFormat returned (a text
\* block only first and never empty, ids and names as the upstream gave
\* them) and the tool results processChat made of them.
UserTexts == { "", "hello" }
CallIDs == { "", "call_1" }
ToolUses == { ToolUseBlock(id, "read_file", a) : id \in CallIDs, a \in ArgMaps }
AssistantMessages ==
    { Message("assistant", << >>), Message("assistant", << TextBlock("hi") >>) }
    \cup { Message("assistant", << u >>) : u \in ToolUses }
    \cup { Message("assistant", << TextBlock("hi"), u >>) : u \in ToolUses }
    \cup { Message("assistant",
                   << TextBlock("hi"), ToolUseBlock("call_1", "read_file", JNull),
                      ToolUseBlock("call_2", "getUser", JObj([id |-> JNum(7)])) >>) }
ResultMessages2 ==
    { Message("user", << ToolResultBlock(id, c) >>) :
        id \in CallIDs, c \in { << >>, << "Error: ", "unknown tool: ", "nope" >> } }
    \cup { Message("user", << ToolResultBlock("call_1", << "one" >>),
                              ToolResultBlock("call_2", << "two" >>) >>) }
ConvMessages ==
    { Message("user", << TextBlock(t) >>) : t \in UserTexts }
    \cup AssistantMessages \cup ResultMessages2
Histories == UNION { [1..n -> ConvMessages] : n \in 0..MaxHist }
SystemPrompts == { "", systemPrompt }
ToolLists == { << >>, << ToolDef("read_file", "builtin") >> }

\* the entries an upstream may put into tool_calls
GoodCall(id, name, args) ==
    JObj([id |-> JStr(id), type |-> JStr("function"),
          function |-> JObj([name |-> JStr(name), arguments |-> JStr(args)])])
CallEntries ==
    { GoodCall("call_1", "read_file", ArgsMainGo),
      GoodCall("call_2", "getUser", ArgsId),
      GoodCall("call_3", "read_file", ArgsTruncated),
      GoodCall("call_4", "read_file", ArgsArray),
      GoodCall("call_5", "read_file", "null"),
      JObj([id |-> JStr("call_6"),
            function |-> JObj([name |-> JStr("getUser"),
                               arguments |-> JObj([id |-> JNum(7)])])]),
      JObj([id |-> JStr("call_7"), type |-> JStr("function")]),
      JStr("call_8") }
ContentValues == { JNull, JStr(""), JStr("hi"), JNum(1) }
FinishReasons == { JNull, JStr("tool_calls"), JStr("stop"), JStr("length"), JStr("") }
ToolCallArrays == UNION { [1..n -> CallEntries] : n \in 0..MaxCalls }
ChatMessages ==
    { JObj([role |-> JStr("assistant"), content |-> c]) : c \in ContentValues }
    \cup { JObj([role |-> JStr("assistant"), content |-> c, tool_calls |-> JArr(tcs)]) :
             c \in ContentValues, tcs \in ToolCallArrays }
OtherChoice ==
    JObj([message |-> JObj([role |-> JStr("assistant"), content |-> JStr("other"),
                            tool_calls |-> JArr(<< GoodCall("call_9", "glob", "{}") >>)]),
          finish_reason |-> JStr("content_filter")])
ChatCompletions ==
    { JObj([id |-> JStr("c1"), choices |-> JArr(<< >>)]) }
    \cup { JObj([id |-> JStr("c1"),
                 choices |-> JArr(<< JObj([message |-> m, finish_reason |-> f]) >> \o more)]) :
             m \in ChatMessages, f \in FinishReasons, more \in { << >>, << OtherChoice >> } }

\* the chat completion a mock upstream makes of a request message
EchoOf(message) ==
    JObj([id |-> JStr("echo"),
          choices |-> JArr(<< JObj([message |-> ViaJSON(message),
                                    finish_reason |-> JStr("tool_calls")]) >>)])

\* the assistant messages with one text and one tool invocation
RoundTripMessages ==
    { Message("assistant", << TextBlock(t), ToolUseBlock(id, nm, a) >>) :
        t \in { "hi", "two words" }, id \in CallIDs, nm \in { "read_file", "getUser" },
        a \in ArgMaps }
    \cup { Message("assistant", << ToolUseBlock("call_1", "getUser", a), TextBlock("hi") >>) :
             a \in ArgMaps }

restVars == << assistantVars, authVars, sessionsVars, adapterVars, synthVars, mainVars >>

InitConvert ==
    /\ apiTools = << GetUser, CreateUser >>
    /\ hostBaseURL = "http://host"
    /\ logTool = LogToolWith(<< "app.log" >>)
    /\ codeIndexTool = FALSE
    /\ logFile = FALSE
    /\ script = [lead |-> 0, first |-> [fail |-> TRUE, types |-> << >>],
                 last |-> [fail |-> TRUE, types |-> << >>]]
    /\ InitSession
    /\ InitAuthIdle
    /\ InitDispatchIdle
    /\ InitSessionsIdle
    /\ InitAdapterIdle
    /\ InitConvertIdle
    /\ InitSynthIdle

\* The request of one SendMessage of the chat-completion adapter.
Outbound ==
    /\ convCase = "none"
    /\ \E h \in Histories, system \in SystemPrompts, tools \in ToolLists :
        /\ convCase' = "outbound"
        /\ convIn' = [messages |-> h, tools |-> tools, system |-> system]
        /\ convOut' = OpenAIRequest("gpt", h, tools, system)
        /\ UNCHANGED restVars

\* convertFromOpenAIFormat on one decoded chat completion.
Inbound ==
    /\ convCase = "none"
    /\ \E body \in ChatCompletions :
        /\ convCase' = "inbound"
        /\ convIn' = body
        /\ convOut' = convertFromOpenAIFormat(body)
        /\ UNCHANGED restVars

\* One message out, echoed by the upstream as a chat completion, and in.
RoundTrip ==
    /\ convCase = "none"
    /\ \E m \in RoundTripMessages :
        /\ convCase' = "roundtrip"
        /\ convIn' = m
        /\ convOut' = convertFromOpenAIFormat(EchoOf(convertToOpenAIFormat(<< m >>)[1]))
        /\ UNCHANGED restVars

ConvertNext ==
    \/ Outbound
    \/ Inbound
    \/ RoundTrip

ConvertSpec == InitConvert /\ [][ConvertNext]_vars

\* ========================================================= OpenAPI synthesis
\* A document is what yaml/json.Unmarshal left in a map[string]interface{}.
\* Strings the code cuts up (paths) are sequences of one-character strings;
\* a Go map is met in an order the runtime picks, so `doc` holds the entries
\* of "paths" in the order one run of extractSpec meets them.
MaxTools == 50

JBool(b) == [k |-> "bool", s |-> "", n |-> IF b THEN 1 ELSE 0,
             items |-> << >>, fields |-> NoFields]

\* getString, getBool, getSchemaType, getStringSlice
getString(m, key) == StrOf(Field(m, key))
getBool(m, key) == Field(m, key).k = "bool" /\ Field(m, key).n = 1
getSchemaType(schema) ==
    IF schema.k # "object" THEN "string"
    ELSE IF getString(schema, "type") = "" THEN "string"
    ELSE getString(schema, "type")
getStringSlice(m, key) ==
    IF Field(m, key).k # "array" THEN << >>
    ELSE LET strings == SelectSeq(Field(m, key).items, LAMBDA v : v.k = "string")
         IN  [i \in 1..Len(strings) |-> strings[i].s]

isHTTPMethod(method) == method \in { "GET", "POST", "PUT", "PATCH", "DELETE" }

\* strings.ToUpper and strings.ToLower on the keys of a path item
MethodKeys == { "get", "GET", "Post", "put", "patch", "delete", "head", "parameters" }
ToUpper(key) ==
    CASE key \in { "get", "GET" } -> "GET"
      [] key = "Post" -> "POST"
      [] key = "put" -> "PUT"
      [] key = "patch" -> "PATCH"
      [] key = "delete" -> "DELETE"
      [] key = "head" -> "HEAD"
      [] key = "parameters" -> "PARAMETERS"
      [] OTHER -> key
ToLower(method) ==
    CASE method = "GET" -> "get"
      [] method = "POST" -> "post"
      [] method = "PUT" -> "put"
      [] method = "PATCH" -> "patch"
      [] method = "DELETE" -> "delete"
      [] OTHER -> method

\* strings.ToUpper of one character
LowerCase == << "a", "b", "c", "d", "e", "f", "g", "h", "i", "j", "k", "l", "m",
                "n", "o", "p", "q", "r", "s", "t", "u", "v", "w", "x", "y", "z" >>
UpperCase == << "A", "B", "C", "D", "E", "F", "G", "H", "I", "J", "K", "L", "M",
                "N", "O", "P", "Q", "R", "S", "T", "U", "V", "W", "X", "Y", "Z" >>
UpperChar(c) ==
    IF \E i \in 1..Len(LowerCase) : LowerCase[i] = c
    THEN UpperCase[CHOOSE i \in 1..Len(LowerCase) : LowerCase[i] = c]
    ELSE c

\* the characters as one string
RECURSIVE Str(_)
Str(chars) == IF chars = << >> THEN "" ELSE Head(chars) \o Str(Tail(chars))

\* strings.Trim(s, cutset): the characters of the cutset taken off both ends
RECURSIVE TrimLeft(_, _)
TrimLeft(chars, cutset) ==
    IF chars # << >> /\ Head(chars) \in cutset
    THEN TrimLeft(Tail(chars), cutset) ELSE chars
RECURSIVE TrimRight(_, _)
TrimRight(chars, cutset) ==
    IF chars # << >> /\ chars[Len(chars)] \in cutset
    THEN TrimRight(SubSeq(chars, 1, Len(chars) - 1), cutset) ELSE chars
Trim(chars, cutset) == TrimRight(TrimLeft(chars, cutset), cutset)

\* strings.Split(s, sep): the pieces between the separators, from character
\* i on, piece being the one begun
RECURSIVE SplitFrom(_, _, _, _)
SplitFrom(chars, sep, i, piece) ==
    IF i > Len(chars) THEN << piece >>
    ELSE IF chars[i] = sep THEN << piece >> \o SplitFrom(chars, sep, i + 1, << >>)
    ELSE SplitFrom(chars, sep, i + 1, Append(piece, chars[i]))
Split(chars, sep) == SplitFrom(chars, sep, 1, << >>)

\* generateOperationID: the loop over parts from part i on
RECURSIVE OperationIDFrom(_, _)
OperationIDFrom(parts, i) ==
    IF i > Len(parts) THEN ""
    ELSE LET part == Trim(parts[i], { "{", "}" })
         IN  (IF Len(part) > 0 THEN UpperChar(part[1]) \o Str(Tail(part)) ELSE "")
             \o OperationIDFrom(parts, i + 1)

generateOperationID(method, path) ==
    ToLower(method) \o OperationIDFrom(Split(Trim(path, { "/" }), "/"), 1)

\* extractTool: the locations of the parameters it keeps
KeptLocation(in) == in \in { "path", "query" }

\* extractTool that takes the required flag as declared.
ParameterRequiredAsDeclared(param) == getBool(param, "required")

\* extractTool: Required of a kept parameter
ParameterRequired(param) ==
    getBool(param, "required") \/ getString(param, "in") = "path"

\* extractTool: tool.Parameters
extractParameters(op) ==
    IF Field(op, "parameters").k # "array" THEN << >>
    ELSE LET kept == SelectSeq(Field(op, "parameters").items,
                               LAMBDA p : p.k = "object"
                                          /\ KeptLocation(getString(p, "in")))
         IN  [i \in 1..Len(kept) |->
                [Name |-> getString(kept[i], "name"),
                 In |-> getString(kept[i], "in"),
                 Description |-> getString(kept[i], "description"),
                 Required |-> ParameterRequired(kept[i]),
                 Type |-> getSchemaType(Field(kept[i], "schema"))]]

\* a nil *RequestBody
NoRequestBody == [declared |-> FALSE, Description |-> "", Required |-> {},
                  Properties |-> [p \in {} |-> ""]]

\* extractRequestBody; Required is the set of the keys that are true
extractRequestBody(rb) ==
    LET schema == Field(Field(Field(rb, "content"), "application/json"), "schema")
        props == Field(schema, "properties")
        names == IF props.k = "object"
                 THEN { p \in DOMAIN props.fields : props.fields[p].k = "object" }
                 ELSE {}
        required == getStringSlice(schema, "required")
    IN  [declared |-> TRUE,
         Description |-> getString(rb, "description"),
         Required |-> IF schema.k = "object"
                      THEN { required[i] : i \in 1..Len(required) } ELSE {},
         Properties |-> IF schema.k = "object"
                        THEN [p \in names |->
                                [Type |-> getSchemaType(props.fields[p]),
                                 Description |-> getString(props.fields[p], "description")]]
                        ELSE [p \in {} |-> ""]]

\* extractTool; path is the sequence of the path's characters
extractTool(path, method, op) ==
    [Name |-> IF getString(op, "operationId") # ""
              THEN getString(op, "operationId")
              ELSE generateOperationID(method, path),
     Summary |-> getString(op, "summary"),
     Description |-> IF getString(op, "description") # ""
                     THEN getString(op, "description")
                     ELSE IF getString(op, "summary") # ""
                     THEN getString(op, "summary")
                     ELSE method \o " " \o Str(path),
     Method |-> method,
     Path |-> path,
     Parameters |-> extractParameters(op),
     RequestBody |-> IF Field(op, "requestBody").k = "object"
                     THEN extractRequestBody(Field(op, "requestBody"))
                     ELSE NoRequestBody]

\* one key of one path item, as the two loops of extractSpec meet it; a path
\* item that is no map is an entry with item FALSE
Entry(path, key, operation) ==
    [path |-> path, item |-> TRUE, key |-> key, operation |-> operation]
NoItem(path) == [path |-> path, item |-> FALSE, key |-> "", operation |-> JNull]

\* extractSpec that loads every operation.
LoadedAll(operations) == operations

\* extractSpec: an operation is loaded while len(tools) < MaxTools, so the
\* first MaxTools of them are
Loaded(operations) ==
    SubSeq(operations, 1, IF Len(operations) < MaxTools THEN Len(operations) ELSE MaxTools)

\* extractSpec: the entries that count as endpoints (the path item is a map
\* and the key in upper case is a method), and those whose operation is a map
IsEndpoint(e) == e.item /\ isHTTPMethod(ToUpper(e.key))
IsOperationMap(e) == IsEndpoint(e) /\ e.operation.k = "object"

\* the warning of extractSpec, by the two numbers it prints
Warning(endpoints, loaded) == [endpoints |-> endpoints, loaded |-> loaded]

\* extractSpec on the entries of "paths", in the order the two loops meet
\* them: spec.Tools and what was printed
extractSpec(entries) ==
    LET totalEndpoints == Len(SelectSeq(entries, IsEndpoint))
        loaded == Loaded(SelectSeq(entries, IsOperationMap))
    IN  [Tools |-> [i \in 1..Len(loaded) |->
                      extractTool(loaded[i].path, ToUpper(loaded[i].key), loaded[i].operation)],
         warnings |-> IF totalEndpoints > MaxTools
                      THEN << Warning(totalEndpoints, MaxTools) >> ELSE << >>]

\* ToProviderTool that leaves the body's properties out of the schema.
BodyPropertiesNone(t) == {}

\* ToProviderTool: the body properties it loops over
BodyProperties(t) ==
    IF t.RequestBody.declared THEN DOMAIN t.RequestBody.Properties ELSE {}

\* ToProviderTool: "type" of a property
PropType(type) == IF type = "" THEN "string" ELSE type

\* ToProviderTool: required after the loop over the parameters
RequiredParameters(t) ==
    LET req == SelectSeq(t.Parameters, LAMBDA p : p.Required)
    IN  [i \in 1..Len(req) |-> req[i].Name]

\* APITool.ToProviderTool with its InputSchema; order is the order in which
\* the range over RequestBody.Properties meets the names
ProviderTool(t, order) ==
    LET paramAt(name) == CHOOSE i \in 1..Len(t.Parameters) :
                            /\ t.Parameters[i].Name = name
                            /\ \A j \in i+1..Len(t.Parameters) : t.Parameters[j].Name # name
        paramNames == { t.Parameters[i].Name : i \in 1..Len(t.Parameters) }
        bodyRequired == SelectSeq(order, LAMBDA name : name \in t.RequestBody.Required)
        required == RequiredParameters(t) \o bodyRequired
    IN  [Name |-> t.Name,
         Description |-> t.Description,
         InputSchema |->
            [type |-> "object",
             properties |->
                [name \in paramNames \cup BodyProperties(t) |->
                    IF name \in BodyProperties(t)
                    THEN [type |-> PropType(t.RequestBody.Properties[name].Type),
                          description |-> t.RequestBody.Properties[name].Description]
                    ELSE [type |-> PropType(t.Parameters[paramAt(name)].Type),
                          description |-> t.Parameters[paramAt(name)].Description]],
             hasRequired |-> Len(required) > 0,
             required |-> required]]

\* the orders in which a range over a map with these keys can meet them
Orders(keys) ==
    { o \in [1..Cardinality(keys) -> keys] : \A i, j \in DOMAIN o : o[i] = o[j] => i = j }

\* ---- the documents
MaxOps == 61        \* most operations of a document
MaxParams == 2      \* longest parameters array of an operation

PathUsersId == << "/", "u", "s", "e", "r", "s", "/", "{", "i", "d", "}" >>
PathUsersUserId ==
    << "/", "u", "s", "e", "r", "s", "/", "{", "u", "s", "e", "r", "I", "d", "}" >>
PathItems == << "/", "i", "t", "e", "m", "s" >>
PathRoot == << "/" >>
PathDoubleSlash == << "/", "v", "2", "/", "/", "u", "s", "e", "r", "s", "/" >>
PathNameExt ==
    << "/", "f", "i", "l", "e", "s", "/", "{", "n", "a", "m", "e", "}", ".",
       "{", "e", "x", "t", "}" >>
Paths == { PathUsersId, PathUsersUserId, PathItems, PathRoot, PathDoubleSlash, PathNameExt }

\* an operation with nothing but its operationId
PlainOp(operationId) == JObj([operationId |-> JStr(operationId)])

\* n operations on /items, each with its own operationId, the extra entry
\* (none, a key that is no method, an operation that is no map, a path item
\* that is no map) before or behind them
ExtraEntries ==
    { << >>, << Entry(PathItems, "head", PlainOp("headItems")) >>,
      << Entry(PathItems, "parameters", JArr(<< >>)) >>,
      << Entry(PathItems, "get", JNull) >>, << NoItem(PathRoot) >> }
ManyOps(n) == [i \in 1..n |-> Entry(PathItems, "get", PlainOp("op" \o ToString(i)))]
BigDocs ==
    { extra \o ManyOps(n) : n \in 0..MaxOps, extra \in ExtraEntries }
    \cup { ManyOps(n) \o extra : n \in 0..MaxOps, extra \in ExtraEntries }

\* the declarations of parameters
ParamDecl(name, in, flag) ==
    JObj(IF flag = "absent"
         THEN [name |-> JStr(name), in |-> JStr(in)]
         ELSE [name |-> JStr(name), in |-> JStr(in), required |-> JBool(flag = "true")])
ParamEntries ==
    { ParamDecl("id", "path", f) : f \in { "absent", "false", "true" } }
    \cup { ParamDecl("verbose", "query", f) : f \in { "absent", "false", "true" } }
    \cup { ParamDecl("X-Trace", "header", "true"), ParamDecl("sid", "cookie", "true"),
           JObj([name |-> JStr("limit"), in |-> JStr("query"), required |-> JBool(TRUE),
                 description |-> JStr("page size"),
                 schema |-> JObj([type |-> JStr("integer")])]),
           JObj([name |-> JStr("ref")]),
           JStr("id") }
ParamArrays == UNION { [1..n -> ParamEntries] : n \in 0..MaxParams }

\* the request bodies
JsonBody(schema) ==
    JObj([description |-> JStr("the user"),
          content |-> JObj([a \in { "application/json" } |-> JObj([schema |-> schema])])])
RequestBodies ==
    { JNull,
      JObj([content |-> JObj([a \in { "multipart/form-data" } |-> JObj(NoFields)])]),
      JsonBody(JObj([type |-> JStr("object")])),
      JsonBody(JObj([properties |-> JObj([name |-> JObj([type |-> JStr("string"),
                                                          description |-> JStr("full name")]),
                                          age |-> JObj([type |-> JStr("integer")])]),
                     required |-> JArr(<< JStr("name") >>)])),
      JsonBody(JObj([properties |-> JObj([name |-> JObj(NoFields), id |-> JObj(NoFields)]),
                     required |-> JArr(<< JStr("id"), JStr("name") >>)])),
      JsonBody(JObj([properties |-> JObj([name |-> JObj([type |-> JStr("string")])]),
                     required |-> JArr(<< JStr("name"), JStr("email") >>)])) }

OperationIds == { JNull, JStr(""), JStr("listUsers"), JNum(7) }

\* documents of one operation
NamedOps ==
    { << Entry(path, key, JObj([operationId |-> id, summary |-> JStr("Users")])) >> :
        path \in Paths, key \in MethodKeys \ { "parameters" }, id \in OperationIds }
RichOps ==
    { << Entry(PathUsersId, "Post",
               JObj([parameters |-> JArr(ps), requestBody |-> rb])) >> :
        ps \in ParamArrays, rb \in RequestBodies }
    \cup { << Entry(PathUsersId, "get", JObj([parameters |-> JStr("none")])) >> }
Docs == BigDocs \cup NamedOps \cup RichOps

nonSynthVars == << assistantVars, authVars, sessionsVars, adapterVars, convertVars, mainVars >>

InitSynth ==
    /\ apiTools = << >>
    /\ hostBaseURL = "http://host"
    /\ logTool = LogToolWith(<< "app.log" >>)
    /\ codeIndexTool = FALSE
    /\ logFile = FALSE
    /\ script = [lead |-> 0, first |-> [fail |-> TRUE, types |-> << >>],
                 last |-> [fail |-> TRUE, types |-> << >>]]
    /\ InitSession
    /\ InitAuthIdle
    /\ InitDispatchIdle
    /\ InitSessionsIdle
    /\ InitAdapterIdle
    /\ InitConvertIdle
    /\ doc \in Docs
    /\ parsed = [stage |-> "none", Tools |-> << >>, warnings |-> << >>, defs |-> << >>]

\* ParseSpec on the document: extractSpec
ParseSpec ==
    /\ parsed.stage = "none"
    /\ parsed' = [stage |-> "parsed", Tools |-> extractSpec(doc).Tools,
                  warnings |-> extractSpec(doc).warnings, defs |-> << >>]
    /\ UNCHANGED << nonSynthVars, doc >>

\* getAPIToolDefinitions: ToProviderTool of every tool of the catalog
ToProviderTools ==
    /\ parsed.stage = "parsed"
    /\ \E orders \in [1..Len(parsed.Tools) -> UNION { Orders(BodyProperties(parsed.Tools[i])) :
                                                        i \in 1..Len(parsed.Tools) }] :
          /\ \A i \in 1..Len(parsed.Tools) :
                orders[i] \in Orders(BodyProperties(parsed.Tools[i]))
          /\ parsed' = [parsed EXCEPT !.stage = "defined",
                                      !.defs = [i \in 1..Len(parsed.Tools) |->
                                                  ProviderTool(parsed.Tools[i], orders[i])]]
    /\ UNCHANGED << nonSynthVars, doc >>

SynthNext ==
    \/ ParseSpec
    \/ ToProviderTools

SynthSpec == InitSynth /\ [][SynthNext]_vars

\* ============================================== executeToolCall on its own
\* The dispatcher is called with every name, argument map and Authorization
\* header of small sets, on Assistants with every catalog of up to MaxApiTools
\* operations, with and without a host base URL, log tool and code index.
CatalogTools == { GetUser, CreateUser, ShadowGrep, GetUserV2 }
Catalogs == UNION { [1..n -> CatalogTools] : n \in 0..MaxApiTools }
DispatchNames ==
    { "read_file", "grep", "glob", "read_logs", "search_code_index",
      "getUser", "createUser", "nope" }
DispatchParams ==
    { EmptyInput, [file_path |-> "main.go"], [pattern |-> "x"], [query |-> "e"],
      [id |-> "7", name |-> "bob"] }
AuthHeaders == { "", "Bearer t" }

InitDispatch ==
    /\ apiTools \in Catalogs
    /\ hostBaseURL \in { "", "http://host" }
    /\ logTool \in { NoLogTool, LogToolWith(<< >>), LogToolWith(<< "app.log" >>) }
    /\ codeIndexTool \in BOOLEAN
    /\ logFile = FALSE
    /\ script = [lead |-> 0, first |-> [fail |-> TRUE, types |-> << >>],
                 last |-> [fail |-> TRUE, types |-> << >>]]
    /\ InitSession
    /\ InitAuthIdle
    /\ InitDispatchIdle
    /\ InitSessionsIdle
    /\ InitAdapterIdle
    /\ InitConvertIdle
    /\ InitSynthIdle

\* One call of executeToolCall (the function keeps no state between calls).
Dispatch ==
    /\ dName = ""
    /\ \E name \in DispatchNames, params \in DispatchParams, auth \in AuthHeaders,
          host \in HostReactions :
       \E order \in Orders(DOMAIN params) :
        LET r == executeToolCall(apiTools, hostBaseURL, logTool, codeIndexTool,
                                 name, params, order, auth, host)
        IN  /\ dName' = name
            /\ dParams' = params
            /\ dAuth' = auth
            /\ dHost' = host
            /\ dResult' = r
            /\ http' = r.requests
            /\ UNCHANGED << assistantVars, authVars, sessionsVars, adapterVars, convertVars, synthVars, procVars, backendVars, messages, logFile,
                            audit, out, pc, chatErr, mu, nMsgs, runCalls, runExecs,
                            lastExec >>

DispatchNext == Dispatch

DispatchSpec == InitDispatch /\ [][DispatchNext]_vars

\* ================================================== ExecuteTool on its own
\* ExecuteTool is called with one operation, every argument map of a small
\* set in every order a range over that map can take, with and without an
\* Authorization header, against a host that fails or answers.
GetRepo    == APITool("getRepo", "GET", <<"repos", "{owner}", "{repo}">>,
                      << Parameter("owner", "path", TRUE),
                         Parameter("repo", "path", TRUE),
                         Parameter("ref", "query", FALSE) >>, FALSE, {})
\* an operation with a body, a name declared twice and a path parameter
\* that the path does not hold
UpdateUser == APITool("updateUser", "PUT", <<"users", "{id}">>,
                      << Parameter("id", "path", TRUE),
                         Parameter("id", "query", FALSE),
                         Parameter("tenant", "path", FALSE),
                         Parameter("dry", "query", FALSE) >>, TRUE, {"name"})
ExecTools == { GetUser, CreateUser, GetRepo, UpdateUser }
ExecParams ==
    { EmptyInput,
      [id |-> "7"],
      [id |-> "7", verbose |-> "1"],
      [id |-> "7", name |-> "bob"],
      [id |-> InvalidEscape],
      [name |-> "bob", dry |-> "1"],
      [tenant |-> "t1", name |-> "bob"],
      [owner |-> "ann", repo |-> "x"],
      [owner |-> "{repo}", repo |-> "x"],
      [owner |-> "ann", ref |-> "main"] }
ExecReactions ==
    HostReactions \cup
    { Reaction(TRUE, FALSE, 200, "", FALSE),
      Reaction(TRUE, TRUE, 201, "{\"id\":2}", TRUE),
      Reaction(TRUE, TRUE, 204, "", FALSE),
      Reaction(TRUE, TRUE, 199, "early", FALSE),
      Reaction(TRUE, TRUE, 299, "odd", FALSE),
      Reaction(TRUE, TRUE, 300, "{\"to\":\"/\"}", TRUE),
      Reaction(TRUE, TRUE, 500, "oops", FALSE) }

InitExec ==
    /\ apiTools \in { << t >> : t \in ExecTools }
    /\ hostBaseURL = "http://host"
    /\ logTool = NoLogTool
    /\ codeIndexTool = FALSE
    /\ logFile = FALSE
    /\ script = [lead |-> 0, first |-> [fail |-> TRUE, types |-> << >>],
                 last |-> [fail |-> TRUE, types |-> << >>]]
    /\ InitSession
    /\ InitAuthIdle
    /\ InitDispatchIdle
    /\ InitSessionsIdle
    /\ InitAdapterIdle
    /\ InitConvertIdle
    /\ InitSynthIdle

\* One call of ExecuteTool (the function keeps no state between calls).
Execute ==
    /\ dName = ""
    /\ \E params \in ExecParams, auth \in AuthHeaders, host \in ExecReactions :
       \E order \in Orders(DOMAIN params) :
        LET r == ExecuteTool(apiTools[1], params, order, hostBaseURL, auth, host)
        IN  /\ dName' = apiTools[1].Name
            /\ dParams' = params
            /\ dAuth' = auth
            /\ dHost' = host
            /\ dResult' = r
            /\ http' = r.requests
            /\ UNCHANGED << assistantVars, authVars, sessionsVars, adapterVars, convertVars, synthVars, procVars, backendVars, messages, logFile,
                            audit, out, pc, chatErr, mu, nMsgs, runCalls, runExecs,
                            lastExec >>

ExecNext == Execute

ExecSpec == InitExec /\ [][ExecNext]_vars

\* ============================================== the authentication on its own
\* An Assistant is made with every AuthConfig of a small set and then serves
\* requests and password logins.
AuthConfigs ==
    { AuthConfig(f, p) : f \in {NilFunc, NoAuth} \cup CustomFuncs, p \in Passwords }
nonAuthVars ==
    << assistantVars, sessionsVars, adapterVars, convertVars, synthVars, mainVars >>

InitAuth ==
    /\ apiTools = << >>
    /\ hostBaseURL = ""
    /\ logTool = NoLogTool
    /\ codeIndexTool = FALSE
    /\ logFile = FALSE
    /\ script = [lead |-> 0, first |-> [fail |-> TRUE, types |-> << >>],
                 last |-> [fail |-> TRUE, types |-> << >>]]
    /\ InitSession
    /\ InitDispatchIdle
    /\ InitSessionsIdle
    /\ InitAdapterIdle
    /\ InitConvertIdle
    /\ InitSynthIdle
    /\ authConfig \in AuthConfigs
    /\ authManager = NoAuthManager(authConfig)
    /\ served = NotServed

\* New: authManager := newAuthManager(config.Auth)
NewAssistant ==
    /\ authManager.mode = "none"
    /\ \E generated \in GeneratedPasswords :
          authManager' = newAuthManager(authConfig, generated)
    /\ UNCHANGED << nonAuthVars, authConfig, served >>

Serving == authManager.mode \in { "authModePassword", "authModeCustom", "authModeOpen" }

\* a request to a protected route
ServeRequest ==
    /\ Serving
    /\ \E r \in Requests : served' = authMiddleware(authManager, r)
    /\ UNCHANGED << nonAuthVars, authConfig, authManager >>

\* handleLogin, POST: verifyPassword stores a session under a fresh token
LoginAttempts == Passwords \cup GeneratedPasswords \cup { "guess" }
Login ==
    /\ Serving
    /\ authManager.mode = "authModePassword"
    /\ \E password \in LoginAttempts, token \in Tokens :
          /\ password = authManager.password
          /\ token \notin authManager.sessions
          /\ authManager' = [authManager EXCEPT !.sessions = @ \cup {token}]
    /\ UNCHANGED << nonAuthVars, authConfig, served >>

AuthNext ==
    \/ NewAssistant
    \/ ServeRequest
    \/ Login

AuthSpec == InitAuth /\ [][AuthNext]_vars

\* ==================================================================== claims
IsToolUse(b) == b.Type = "tool_use"
IsToolResult(b) == b.Type = "tool_result"
IsErrorEvent(e) == e.Type = "error"

\* the ids of the tool_use blocks of a message content, in order
ToolUseIds(content) ==
    LET uses == SelectSeq(content, IsToolUse)
    IN  [i \in 1..Len(uses) |-> uses[i].ID]

\* the invocation ids of a message content made of tool_result blocks only
ToolResultIds(content) == [i \in 1..Len(content) |-> content[i].ToolUseID]

OnlyToolResults(content) == \A i \in 1..Len(content) : IsToolResult(content[i])

\* the current turn's blocks have all been processed
TurnOver == pc = "blocks" /\ idx > Len(response)

\* C1: every assistant message of the history that holds k >= 1 tool
\* invocations is directly followed by one user message made of exactly k
\* tool results whose invocation ids are the invocations' ids, in order.
C1_ResultsFollowInvocations ==
    \A i \in 1..Len(messages) :
        (messages[i].Role = "assistant" /\ ToolUseIds(messages[i].Content) # << >>)
        => /\ i + 1 <= Len(messages)
           /\ messages[i + 1].Role = "user"
           /\ OnlyToolResults(messages[i + 1].Content)
           /\ ToolResultIds(messages[i + 1].Content) = ToolUseIds(messages[i].Content)

\* C2: when a tool-using turn is over, the history is the turn's snapshot plus
\* exactly two messages: the assistant message with all blocks of the
\* response in order, then one user message with the results.
C2_TwoMessagesPerToolTurn ==
    (TurnOver /\ hasToolUse)
    => /\ Len(messages) = Len(snapshot) + 2
       /\ SubSeq(messages, 1, Len(snapshot)) = snapshot
       /\ messages[Len(snapshot) + 1] = Message("assistant", response)
       /\ messages[Len(snapshot) + 2].Role = "user"
       /\ OnlyToolResults(messages[Len(snapshot) + 2].Content)

\* the backend answers every call with a response that holds a tool_use block
HasToolUseBlock(shape) ==
    ~shape.fail /\ \E i \in 1..Len(shape.types) : shape.types[i] = "tool_use"
AlwaysToolUse(sc) == HasToolUseBlock(sc.first) /\ HasToolUseBlock(sc.last)

\* C3: with a backend that answers every call with a tool_use block and never
\* fails, a run of processChat returns only after exactly 10 provider calls,
\* and returns no error.
C3_TenCallsThenReturn ==
    AlwaysToolUse(script)
    => /\ runCalls <= 10
       /\ pc = "returned" => (runCalls = 10 /\ chatErr = NoErr)

C3_Witness ==
    AlwaysToolUse(script) /\ pc = "returned" /\ runCalls = 10 /\ nMsgs = 2

\* C4: when a turn's response holds no tool_use block, the next two steps of
\* processChat append the pending assistant message once and return nil,
\* with no provider call and no tool execution in between; and no run makes
\* more than 10 provider calls.
C4_NoToolTurnEndsRun ==
    /\ [](runCalls <= 10)
    /\ [][ (TurnOver /\ ~hasToolUse)
           => /\ pc' = "final"
              /\ messages' = messages
              /\ runCalls' = runCalls /\ runExecs' = runExecs ]_vars
    /\ [][ pc = "final"
           => /\ pc' = "returned"
              /\ chatErr' = NoErr
              /\ messages' = Append(messages, Message("assistant", assistantContent))
              /\ runCalls' = runCalls /\ runExecs' = runExecs ]_vars
    /\ []((pc = "returned" /\ chatErr = NoErr /\ ~hasToolUse)
          => /\ messages = Append(snapshot, Message("assistant", assistantContent))
             /\ runCalls = turn + 1)

C4_Witness ==
    /\ pc = "returned" /\ chatErr = NoErr /\ ~hasToolUse
    /\ runCalls = 2 /\ runExecs >= 1
    /\ Len(response) = 2

\* the number of "error" events written to the connection
ErrorEvents(conn) == Len(SelectSeq(conn, IsErrorEvent))

\* C5: a failing provider call makes processChat return the error in that
\* step, leaving history, client events and tool executions as they were (the
\* history is still the snapshot of that turn); the caller then writes
\* exactly one "error" event followed by "done", and "error" events are
\* written nowhere else.
C5_ProviderErrorAborts ==
    /\ [][ (pc = "call" /\ ShapeAt(script, nCalls).fail)
           => /\ pc' = "returned"
              /\ chatErr' # NoErr
              /\ messages' = messages /\ out' = out /\ audit' = audit
              /\ runExecs' = runExecs ]_vars
    /\ []((pc = "returned" /\ chatErr # NoErr)
          => /\ messages = snapshot
             /\ runCalls = turn + 1)
    /\ [][ (pc = "returned" /\ chatErr # NoErr)
           => /\ pc' = "read"
              /\ out' = out \o << [Type |-> "error", Content |-> "Error"],
                                  [Type |-> "done", Content |-> ""] >>
              /\ messages' = messages
              /\ runCalls' = runCalls /\ runExecs' = runExecs ]_vars
    /\ [][ ~(pc = "returned" /\ chatErr # NoErr)
           => ErrorEvents(out') = ErrorEvents(out) ]_vars

C5_Witness ==
    /\ pc = "read" /\ nMsgs = 1
    /\ chatErr # NoErr /\ turn = 1
    /\ Len(messages) = 3
    /\ ErrorEvents(out) = 1

\* the tool_result block most recently appended to the history
LastResult == messages[Len(messages)].Content[1]

\* C6: a tool execution that returns an error does not end the run: its
\* result block holds "Error: " followed by the error, the block loop goes
\* on, processChat returns an error only for a failed provider call, and a
\* tool-using turn with budget left is followed by the next provider call.
C6_ToolErrorIsResult ==
    /\ [][ (pc = "toolappend" /\ lastExec.err # NoErr)
           => /\ pc' = "blocks"
              /\ chatErr' = NoErr
              /\ Len(messages') = Len(messages) + 2
              /\ messages'[Len(messages')] =
                   Message("user", << ToolResultBlock(response[idx].ID,
                                         << "Error: " >> \o lastExec.err) >>) ]_vars
    /\ [][ chatErr' # chatErr
           => \/ chatErr' = NoErr
              \/ pc = "call" /\ ShapeAt(script, nCalls).fail ]_vars
    /\ [][ (TurnOver /\ hasToolUse) => (pc' = "turn" /\ turn' = turn + 1) ]_vars
    /\ [][ (pc = "turn" /\ turn < 10) => pc' = "snap" ]_vars
    /\ [][ pc = "snap" => pc' = "call" ]_vars

C6_Witness ==
    /\ pc = "call" /\ runCalls >= 1
    /\ Len(messages) >= 3
    /\ LastResult.Type = "tool_result"
    /\ LastResult.Content = << "Error: ", "unknown tool: ", "nope" >>

\* the catalog has an operation of that name
IsApiName(name) == \E i \in 1..Len(apiTools) : apiTools[i].Name = name
\* executeToolCall has been called
Called == dName # ""
ConfigError == << "HostBaseURL is not configured for API tool execution" >>

\* C7: a name of the catalog is never handed to a built-in handler and, with
\* a base URL, is executed as one HTTP request of an operation of that name;
\* any other name goes to the built-in set: read_file, grep and glob run
\* their handler, read_logs and search_code_index run theirs when registered,
\* and a name outside the set fails with "unknown tool: <name>".
C7_ResolutionOrder ==
    Called =>
      IF IsApiName(dName)
      THEN /\ dResult.handler \in {"api", "none"}
           /\ hostBaseURL # ""
              => /\ dResult.handler = "api"
                 /\ Len(http) = 1
                 /\ \E i \in 1..Len(apiTools) :
                       /\ apiTools[i].Name = dName
                       /\ http[1].method = apiTools[i].Method
                       /\ Len(http[1].path) = Len(apiTools[i].Path)
      ELSE /\ http = << >>
           /\ CASE dName \in {"read_file", "grep", "glob"} ->
                     dResult.handler = dName
                [] dName = "read_logs" ->
                     IF logTool.registered THEN dResult.handler = "read_logs"
                     ELSE dResult.err = << "log tool not configured" >>
                [] dName = "search_code_index" ->
                     IF codeIndexTool THEN dResult.handler = "search_code_index"
                     ELSE dResult.err = << "code index not available" >>
                [] OTHER ->
                     /\ dResult.handler = "none"
                     /\ dResult.err = << "unknown tool: ", dName >>

C7_Witness ==
    /\ dName = "grep" /\ IsApiName("grep") /\ hostBaseURL # ""
    /\ dParams = [pattern |-> "x"]
    /\ dResult.handler = "api"
    /\ Len(http) = 1 /\ http[1].path = << "search" >>

\* C8: a tool invocation of processChat whose name is an operation of the
\* catalog is executed by the API executor and is not answered "unknown tool".
C8_ApiToolsReachHost ==
    (pc = "toolappend" /\ IsApiName(response[idx].Name))
    => /\ lastExec.handler = "api"
       /\ lastExec.err # << "unknown tool: ", response[idx].Name >>

\* C9: every provider call is given the fixed system prompt and a tool list
\* that holds the built-in definitions and one definition for every operation
\* of the catalog.
C9_ProviderGetsActiveCatalog ==
    nCalls > 0
    => /\ sent.system = systemPrompt
       /\ \A n \in {"read_file", "grep", "glob"} :
             \E j \in 1..Len(sent.tools) : sent.tools[j] = ToolDef(n, "builtin")
       /\ \A i \in 1..Len(apiTools) :
             \E j \in 1..Len(sent.tools) :
                sent.tools[j] = ToolDef(apiTools[i].Name, "api")

\* C10: without a host base URL no call puts a request on the wire; a call
\* of a catalog name returns the configuration error, a call of any other
\* name returns what the built-in set returns for it.
C10_NoBaseURLNoRequest ==
    (Called /\ hostBaseURL = "")
    => /\ http = << >>
       /\ dResult.requests = << >>
       /\ IF IsApiName(dName)
          THEN dResult.err = ConfigError /\ dResult.result = << >>
          ELSE /\ dResult.err # ConfigError
               /\ dName \in {"read_file", "grep", "glob"} => dResult.handler = dName
               /\ (dName = "read_file" /\ dParams = [file_path |-> "main.go"])
                  => (dResult.err = NoErr /\ dResult.result = << "File: ", "main.go" >>)

C10_Witness ==
    /\ hostBaseURL = "" /\ dName = "createUser" /\ IsApiName("createUser")
    /\ dResult.err = ConfigError
    /\ http = << >>

\* the built-in names of Registry.Execute
BuiltinNames == { "read_file", "grep", "glob", "read_logs", "search_code_index" }
\* the definitions of the active set that carry a name
DefsNamed(name) ==
    LET all == getAllToolDefinitions(logTool, codeIndexTool, apiTools)
    IN  { j \in 1..Len(all) : all[j].Name = name }
\* the catalog entries that carry a name
ApiNamed(name) == { i \in 1..Len(apiTools) : apiTools[i].Name = name }
\* the first catalog entry that carries the name
FirstApi(name) == CHOOSE i \in ApiNamed(name) : \A j \in ApiNamed(name) : i <= j
\* the name is both a built-in definition and a catalog operation
Collides(name) ==
    /\ ApiNamed(name) # {}
    /\ \E j \in DefsNamed(name) :
          getAllToolDefinitions(logTool, codeIndexTool, apiTools)[j].source = "builtin"

IsPrefix(s, t) == Len(s) <= Len(t) /\ SubSeq(t, 1, Len(s)) = s

\* C12: every step leaves the former history as a prefix of the new one.
C12_HistoryAppendOnly == [][IsPrefix(messages, messages')]_vars

\* two runs that both hit the turn cap
C12_Witness ==
    /\ pc = "read" /\ nMsgs = 2
    /\ runCalls = maxTurns
    /\ Len(messages) > 40

\* C13: the history changes and the snapshot is read only in steps that
\* start with the lock held; the lock is held exactly between taking it and
\* the end of the critical section, so it is free when processChat has
\* returned or the connection is closed; every provider call and every tool
\* execution starts with the lock free.
C13_LockDiscipline ==
    /\ [](mu <=> pc \in {"usermsg", "snap", "toolappend", "final"})
    /\ [][messages' # messages => (mu /\ ~mu')]_vars
    /\ [][pc = "snap" => (mu /\ snapshot' = messages /\ ~mu')]_vars
    /\ [][nCalls' # nCalls => (~mu /\ pc = "call")]_vars
    /\ [][runExecs' > runExecs => ~mu]_vars
    /\ [](pc \in {"call", "returned", "read", "closed"} => ~mu)

C13_Witness ==
    /\ pc = "toolappend" /\ mu
    /\ runExecs = 2 /\ runCalls = 1

\* C14: the provider is handed the snapshot, which is the history as it was
\* when the snapshot was taken; appends made afterwards change the history
\* and leave the snapshot and what the provider was handed as they were.
C14_SnapshotIsACopy ==
    /\ [][pc = "snap" => snapshot' = messages]_vars
    /\ [][pc = "call" => sent'.messages = snapshot]_vars
    /\ [][pc # "snap" => snapshot' = snapshot]_vars
    /\ [][pc # "call" => sent' = sent]_vars
    /\ [](pc \in {"blocks", "toolappend", "final"}
          => (sent.messages = snapshot /\ IsPrefix(snapshot, messages)))

C14_Witness ==
    /\ pc = "blocks" /\ idx > Len(response)
    /\ Len(messages) = Len(snapshot) + 4
    /\ sent.messages = snapshot

IsTextBlock(b) == b.Type = "text"
IsTextEvent(e) == e.Type = "text"
\* the texts of the text blocks of a content, in order
TextsOf(content) ==
    LET ts == SelectSeq(content, IsTextBlock)
    IN  [i \in 1..Len(ts) |-> ts[i].Text]
\* the contents of the last n events of a connection, in order
LastContents(conn, n) == [i \in 1..n |-> conn[Len(conn) - n + i].Content]
\* the events of a connection that carry a text
EventsWith(conn, text) ==
    { i \in 1..Len(conn) : conn[i].Type = "text" /\ conn[i].Content = text }
\* the blocks of the response that the block loop has gone through
Handled == SubSeq(response, 1, idx - 1)

\* C16: while a response is gone through, the text blocks handled so far
\* are the last events of the connection, one text event each, in the
\* order of the response, and no later block's text is out yet; so when a
\* tool invocation is executed every text block ahead of it has been emitted
\* and none of the blocks behind it, and the execution writes no event.
C16_TextBeforeTools ==
    /\ [](pc \in {"blocks", "toolappend"}
          => /\ Len(out) >= Len(TextsOf(Handled))
             /\ LastContents(out, Len(TextsOf(Handled))) = TextsOf(Handled)
             /\ \A i \in 1..Len(response) :
                   response[i].Type = "text"
                   => Cardinality(EventsWith(out, response[i].Text))
                        = (IF i < idx THEN 1 ELSE 0))
    /\ [][runExecs' > runExecs => out' = out]_vars
    /\ [][(pc = "blocks" /\ idx <= Len(response) /\ response[idx].Type = "text")
          => out' = Append(out, [Type |-> "text", Content |-> response[idx].Text])]_vars

C16_Witness ==
    /\ pc = "toolappend"
    /\ Len(response) = 2 /\ response[1].Type = "text" /\ idx = 2
    /\ out[Len(out)] = [Type |-> "text", Content |-> response[1].Text]

AuditTypes(log) == [i \in 1..Len(log) |-> log[i].type]

\* C17: after the session start, one user message and a response made of a
\* text and a tool invocation, once the invocation's result is there the
\* audit log holds session_start, user_message, assistant_message, tool_use,
\* tool_result in this order and nothing else; and whenever no tool is being
\* executed every tool_use record is directly followed by the tool_result
\* record of the same tool id.
C17_AuditOrder ==
    /\ (/\ logFile /\ nMsgs = 1 /\ runCalls = 1 /\ pc = "toolappend" /\ idx = 2
        /\ Len(response) = 2 /\ response[1].Type = "text")
       => AuditTypes(audit) = << "session_start", "user_message",
                                 "assistant_message", "tool_use", "tool_result" >>
    /\ \A i \in 1..Len(audit) :
          audit[i].type = "tool_use"
          => /\ i < Len(audit)
             /\ audit[i + 1].type = "tool_result"
             /\ audit[i + 1].ref = audit[i].ref

C17_Witness ==
    /\ logFile /\ nMsgs = 1 /\ runCalls = 1 /\ pc = "toolappend" /\ idx = 2
    /\ Len(response) = 2 /\ response[1].Type = "text"
    /\ Len(audit) = 5 /\ audit[4].ref = audit[5].ref

AuditCount(log, type) == Cardinality({ i \in 1..Len(log) : log[i].type = type })
\* the tool_result messages of a history
ResultMessages(h) ==
    { i \in 1..Len(h) : h[i].Content # << >> /\ h[i].Content[1].Type = "tool_result" }
AuditEventTypes ==
    { "session_start", "user_message", "assistant_message", "tool_use",
      "tool_result", "session_end", "error" }

\* C18: with a working sink the audit log only grows; every record has one
\* of the seven types; each event has exactly one record (one user_message
\* per client message, one assistant_message per text event, one tool_use
\* and one tool_result per execution, one error per error event);
\* session_start is the first record of an accepted connection and occurs
\* once; session_end is absent while the connection is open and is the one
\* last record once it has ended.
C18_AuditComplete ==
    /\ [][IsPrefix(audit, audit')]_vars
    /\ [](logFile =>
          /\ \A i \in 1..Len(audit) : audit[i].type \in AuditEventTypes
          /\ (pc # "accept") <=> (audit # << >>)
          /\ audit # << >> => audit[1].type = "session_start"
          /\ AuditCount(audit, "session_start") <= 1
          /\ AuditCount(audit, "user_message") = nMsgs
          /\ AuditCount(audit, "assistant_message") = Len(SelectSeq(out, IsTextEvent))
          /\ AuditCount(audit, "tool_use") = AuditCount(audit, "tool_result")
          /\ AuditCount(audit, "tool_result")
               = Cardinality(ResultMessages(messages))
                 + (IF pc = "toolappend" THEN 1 ELSE 0)
          /\ AuditCount(audit, "error") = ErrorEvents(out)
          /\ AuditCount(audit, "session_end") = (IF pc = "closed" THEN 1 ELSE 0)
          /\ pc = "closed" => audit[Len(audit)].type = "session_end")

C18_Witness ==
    /\ logFile /\ pc = "closed"
    /\ AuditCount(audit, "error") = 1
    /\ AuditCount(audit, "tool_use") = 2
    /\ audit[Len(audit)].type = "session_end"

\* C15: a step that changes one session's state or file leaves the history,
\* the connection and the audit file of every other session as they were.
C15_SessionsIndependent ==
    [][\A id \in SessionIDs :
          (sess'[id] # sess[id] \/ sessionFiles'[FileName(id)] # sessionFiles[FileName(id)])
          => \A other \in SessionIDs \ {id} :
                /\ sess'[other] = sess[other]
                /\ sessionFiles'[FileName(other)] = sessionFiles[FileName(other)]]_vars

C15_Witness ==
    /\ sess["s1"].logFile /\ sess["s2"].logFile
    /\ sess["s1"].pc = "chat" /\ Len(sess["s1"].messages) = 3
    /\ sess["s2"].pc = "closed" /\ Len(sess["s2"].messages) = 2
    /\ Len(sessionFiles[FileName("s1")]) = 5
    /\ Len(sessionFiles[FileName("s2")]) = 4

\* C19: of two connections that get the same inputs, one with its log file
\* and one whose log file could not be opened, the histories, the events
\* written to the client and the control state are the same at every moment;
\* the first has its audit records, the second has none.
C19_SinkIsTransparent ==
    /\ sess["s1"].messages = sess["s2"].messages
    /\ sess["s1"].out = sess["s2"].out
    /\ sess["s1"].pc = sess["s2"].pc
    /\ sess["s1"].turn = sess["s2"].turn
    /\ sessionFiles[FileName("s2")] = << >>
    /\ sess["s1"].pc # "accept" => sessionFiles[FileName("s1")] # << >>

C19_Witness ==
    /\ sess["s1"].pc = "closed"
    /\ sess["s1"].logFile /\ ~sess["s2"].logFile
    /\ Len(sess["s2"].messages) = 4
    /\ Len(sess["s2"].out) = 4
    /\ Len(sessionFiles[FileName("s1")]) > 6
    /\ sessionFiles[FileName("s2")] = << >>

\* the body is a response of the adapter's protocol: a messages response has
\* a content array, a chat completion has a first choice
IsProtocolResponse(which, v) ==
    IF which = "anthropic"
    THEN v.k = "object" /\ Field(v, "content").k = "array"
    ELSE /\ v.k = "object"
         /\ Field(v, "choices").k = "array"
         /\ Len(Field(v, "choices").items) > 0
Mentions(err, piece) == \E i \in 1..Len(err) : err[i] = piece

\* C20: a call whose network exchange fails, whose status is not 2xx or
\* whose body is not JSON or not a response of the adapter's protocol returns
\* an error and no response; for a status that is not 2xx the error holds
\* the status and the body.
C20_ErrorOnEveryFailure ==
    upstream.net # "none" =>
      /\ (\/ upstream.net # "ok"
          \/ upstream.status \notin 200..299
          \/ ~Decode(upstream.body).ok
          \/ ~IsProtocolResponse(adapter, Decode(upstream.body).value))
         => (~reply.hasResp /\ reply.err # NoErr)
      /\ (upstream.net = "ok" /\ upstream.status \notin 200..299)
         => /\ Mentions(reply.err, ToString(upstream.status))
            /\ Mentions(reply.err, upstream.body)

\* ---- the conversions of the chat-completion adapter
TextOf(msg) == (CHOOSE i \in 1..Len(msg.Content) : msg.Content[i].Type = "text")
UseOf(msg) == (CHOOSE i \in 1..Len(msg.Content) : msg.Content[i].Type = "tool_use")

\* C21: an assistant message with one text segment and one tool invocation,
\* converted outbound, echoed back as a chat completion and converted
\* inbound, gives a Text segment with the original text followed by a
\* ToolInvocation with the original id, name and arguments.
C21_RoundTrip ==
    convCase = "roundtrip" =>
        LET text == convIn.Content[TextOf(convIn)]
            use == convIn.Content[UseOf(convIn)]
            got == convOut.Content
        IN  /\ Len(got) = 2
            /\ got[1].Type = "text" /\ got[1].Text = text.Text
            /\ got[2].Type = "tool_use"
            /\ got[2].ID = use.ID /\ got[2].Name = use.Name
            /\ got[2].Input = use.Input

C21_Witness ==
    /\ convCase = "roundtrip"
    /\ convIn.Content[2].Type = "tool_use"
    /\ convIn.Content[2].Input = JObj([id |-> JNum(7), name |-> JStr("bob")])
    /\ convOut.Content[2].Input = JObj([id |-> JNum(7), name |-> JStr("bob")])
    /\ convOut.Content[2].ID = "call_1"
    /\ convOut.Content[1].Text = "two words"

\* the first choice of a chat completion and its parts
FirstChoice(body) == Field(body, "choices").items[1]
HasFirstChoice(body) ==
    Field(body, "choices").k = "array" /\ Len(Field(body, "choices").items) > 0
FirstMessage(body) == Field(FirstChoice(body), "message")
CallsOf(body) ==
    IF Field(FirstMessage(body), "tool_calls").k = "array"
    THEN Field(FirstMessage(body), "tool_calls").items ELSE << >>

\* C22: the finish reason of the first choice becomes the stop reason:
\* tool_calls as tool_use, stop as end_turn, every other value as itself.
C22_StopReason ==
    (convCase = "inbound" /\ HasFirstChoice(convIn)) =>
        LET f == Field(FirstChoice(convIn), "finish_reason")
        IN  f.k = "string" =>
              /\ f.s = "tool_calls" => convOut.StopReason = "tool_use"
              /\ f.s = "stop" => convOut.StopReason = "end_turn"
              /\ f.s \notin { "tool_calls", "stop" } => convOut.StopReason = f.s

C22_Witness ==
    /\ convCase = "inbound"
    /\ Len(Field(convIn, "choices").items) = 2
    /\ Field(FirstChoice(convIn), "finish_reason") = JStr("length")
    /\ convOut.StopReason = "length"

HasText(body) ==
    Field(FirstMessage(body), "content").k = "string"
    /\ Field(FirstMessage(body), "content").s # ""
HoldsFunction(entry) == entry.k = "object" /\ Field(entry, "function").k = "object"
TextCount(body) == IF HasText(body) THEN 1 ELSE 0

\* the segments are the text, if any, and then one invocation for each of
\* the given entries, in their order
SegmentsAre(body, content, entries) ==
    /\ Len(content) = TextCount(body) + Len(entries)
    /\ HasText(body) =>
          /\ content[1].Type = "text"
          /\ content[1].Text = Field(FirstMessage(body), "content").s
    /\ \A i \in 1..Len(entries) :
          /\ content[TextCount(body) + i].Type = "tool_use"
          /\ content[TextCount(body) + i].ID = StrOf(Field(entries[i], "id"))

\* C23 as stated: a Text segment exactly when content is a non-empty string,
\* before all invocations, then one ToolInvocation per entry of tool_calls.
C23_OnePerEntry ==
    (convCase = "inbound" /\ HasFirstChoice(convIn)) =>
        SegmentsAre(convIn, convOut.Content, CallsOf(convIn))

\* C23: a Text segment exactly when the first choice's content is a
\* non-empty string, before all invocations, then one ToolInvocation per
\* entry of tool_calls that is an object with a function object, in array
\* order; the other entries, and every other choice, give nothing.
C23_OnePerFunctionEntry ==
    /\ (convCase = "inbound" /\ HasFirstChoice(convIn)) =>
          SegmentsAre(convIn, convOut.Content, SelectSeq(CallsOf(convIn), HoldsFunction))
    /\ (convCase = "inbound" /\ ~HasFirstChoice(convIn)) => convOut.Content = << >>

C23_Witness ==
    /\ convCase = "inbound"
    /\ Len(Field(convIn, "choices").items) = 2
    /\ HasText(convIn)
    /\ Len(CallsOf(convIn)) = 2
    /\ CallsOf(convIn)[1] = JStr("call_8")
    /\ Len(convOut.Content) = 2
    /\ convOut.Content[2].ID = "call_2"

\* the arguments of an entry are a string holding a JSON object
GoodArguments(entry) ==
    LET a == Field(Field(entry, "function"), "arguments")
    IN  a.k = "string" /\ Decode(a.s).ok /\ Decode(a.s).value.k = "object"

\* the body with entry i of the first choice's tool_calls replaced
WithCall(body, i, entry) ==
    LET choice == FirstChoice(body)
        message == FirstMessage(body)
        calls == [CallsOf(body) EXCEPT ![i] = entry]
    IN  JObj([id |-> Field(body, "id"),
              choices |-> JArr(<< JObj([message |-> JObj([role |-> Field(message, "role"),
                                                         content |-> Field(message, "content"),
                                                         tool_calls |-> JArr(calls)]),
                                        finish_reason |-> Field(choice, "finish_reason")]) >>)])

\* C24: a tool call whose arguments are no JSON object in a string still
\* gives its ToolInvocation, with its id and name and no arguments, and the
\* other segments are what they are with well-formed arguments in its place.
C24_BadArguments ==
    (convCase = "inbound" /\ HasFirstChoice(convIn)) =>
        LET kept == SelectSeq(CallsOf(convIn), HoldsFunction)
            at(i) == TextCount(convIn) + i
        IN  \A i \in 1..Len(kept) :
               ~GoodArguments(kept[i]) =>
                  /\ Len(convOut.Content) = TextCount(convIn) + Len(kept)
                  /\ convOut.Content[at(i)].Type = "tool_use"
                  /\ convOut.Content[at(i)].ID = StrOf(Field(kept[i], "id"))
                  /\ convOut.Content[at(i)].Name
                        = StrOf(Field(Field(kept[i], "function"), "name"))
                  /\ convOut.Content[at(i)].Input = JNull
                  /\ Len(kept) = Len(CallsOf(convIn)) =>
                       LET other == convertFromOpenAIFormat(
                                       WithCall(convIn, i,
                                                GoodCall(StrOf(Field(kept[i], "id")),
                                                         "read_file", ArgsMainGo))).Content
                       IN  /\ Len(other) = Len(convOut.Content)
                           /\ \A j \in 1..Len(other) :
                                 j # at(i) => other[j] = convOut.Content[j]

C24_Witness ==
    /\ convCase = "inbound"
    /\ HasFirstChoice(convIn)
    /\ HasText(convIn)
    /\ Len(CallsOf(convIn)) = 2
    /\ Field(Field(CallsOf(convIn)[1], "function"), "arguments") = JStr(ArgsTruncated)
    /\ Field(Field(CallsOf(convIn)[2], "function"), "arguments") = JStr(ArgsId)
    /\ Len(convOut.Content) = 3
    /\ convOut.Content[2].ID = "call_3"
    /\ convOut.Content[2].Input = JNull
    /\ convOut.Content[3].Input = JObj([id |-> JNum(7)])

\* the kinds of message the outbound conversion is described for
UsesOf(msg) == SelectSeq(msg.Content, LAMBDA b : b.Type = "tool_use")
IsInvoking(msg) == msg.Role = "assistant" /\ UsesOf(msg) # << >>
IsResult(msg) == msg.Role = "user" /\ Len(msg.Content) = 1
                 /\ msg.Content[1].Type = "tool_result"
IsPlainText(msg) == Len(msg.Content) = 1 /\ msg.Content[1].Type = "text"
SystemCount == IF convIn.system # "" THEN 1 ELSE 0

\* the request message is the one described for the message
ConvertedAs(msg, m) ==
    /\ IsInvoking(msg) =>
          /\ Field(m, "role") = JStr("assistant")
          /\ Field(m, "tool_calls").k = "maps"
          /\ Len(Field(m, "tool_calls").items) = Len(UsesOf(msg))
          /\ \A i \in 1..Len(UsesOf(msg)) :
                LET call == Field(m, "tool_calls").items[i]
                    arguments == Field(Field(call, "function"), "arguments")
                IN  /\ Field(call, "id") = JStr(UsesOf(msg)[i].ID)
                    /\ Field(Field(call, "function"), "name") = JStr(UsesOf(msg)[i].Name)
                    /\ arguments.k = "string"
                    /\ Decode(arguments.s).ok
                    /\ Decode(arguments.s).value = UsesOf(msg)[i].Input
    /\ IsResult(msg) =>
          /\ Field(m, "role") = JStr("tool")
          /\ Field(m, "content") = JStr(FlattenPieces(msg.Content[1].Content))
          /\ Field(m, "tool_call_id") = JStr(msg.Content[1].ToolUseID)
    /\ IsPlainText(msg) =>
          /\ Field(m, "role") = JStr(msg.Role)
          /\ Field(m, "content") = JStr(msg.Content[1].Text)
          /\ DOMAIN m.fields = { "role", "content" }

IsResults(msg) ==
    /\ msg.Role = "user"
    /\ Len(msg.Content) >= 2
    /\ \A i \in 1..Len(msg.Content) : msg.Content[i].Type = "tool_result"

\* what the conversion makes of a message that is sent
Sent(msg) ==
    \/ IsInvoking(msg)
    \/ IsResults(msg) /\ msg.Content[Len(msg.Content)].ToolUseID # ""
    \/ IsResult(msg) /\ msg.Content[1].ToolUseID # ""
    \/ IsResult(msg) /\ msg.Content[1].Content # << >>
    \/ IsPlainText(msg) /\ msg.Content[1].Text # ""
SentBefore(h, i) == Cardinality({ j \in 1..i : Sent(h[j]) })

C26_SystemFirst ==
    (convCase = "outbound" /\ convIn.system # "") =>
        LET h == convIn.messages
            ms == convOut.messages
        IN  /\ Len(ms) >= 1
            /\ ms[1] = JObj([role |-> JStr("system"), content |-> JStr(convIn.system)])
            /\ \A i \in 2..Len(ms) : Field(ms[i], "role") # JStr("system")
            /\ Tail(ms) = convertToOpenAIFormat(h)
            /\ Len(h) = 2 =>
                 Tail(ms) = convertToOpenAIFormat(<< h[1] >>) \o convertToOpenAIFormat(<< h[2] >>)

C26_Witness ==
    /\ convCase = "outbound"
    /\ convIn.system = systemPrompt
    /\ Len(convIn.messages) = 2
    /\ IsPlainText(convIn.messages[1]) /\ convIn.messages[1].Role = "user"
    /\ IsInvoking(convIn.messages[2])
    /\ Len(convOut.messages) = 3
    /\ Field(convOut.messages[1], "role") = JStr("system")
    /\ Field(convOut.messages[2], "role") = JStr("user")
    /\ Field(convOut.messages[3], "role") = JStr("assistant")

\* ---- OpenAPI synthesis
\* the entries that are operations (a key that is one of the five methods in
\* any case) and those of them whose operation is a mapping
IsOperation(e) == e.item /\ e.key \in { "get", "GET", "Post", "put", "patch", "delete" }
OperationsOf(entries) == SelectSeq(entries, IsOperation)
ValidOperationsOf(entries) ==
    SelectSeq(entries, LAMBDA e : IsOperation(e) /\ e.operation.k = "object")

\* C27: synthesis yields at most 50 tools for any document; a document with
\* 60 operations, all valid, yields exactly 50 tools and exactly one warning,
\* which names 60 and 50; a document with 50 or fewer operations yields one
\* tool per valid operation, in the order they are met, and no warning.
C27_HardCap ==
    parsed.stage # "none" =>
        /\ Len(parsed.Tools) <= 50
        /\ (Len(OperationsOf(doc)) = 60 /\ Len(ValidOperationsOf(doc)) = 60) =>
              /\ Len(parsed.Tools) = 50
              /\ parsed.warnings = << [endpoints |-> 60, loaded |-> 50] >>
        /\ Len(OperationsOf(doc)) <= 50 =>
              /\ Len(parsed.Tools) = Len(ValidOperationsOf(doc))
              /\ \A i \in 1..Len(parsed.Tools) :
                    /\ parsed.Tools[i].Path = ValidOperationsOf(doc)[i].path
                    /\ parsed.Tools[i].Method \in { "GET", "POST", "PUT", "PATCH", "DELETE" }
              /\ parsed.warnings = << >>

C27_Witness ==
    /\ parsed.stage = "parsed"
    /\ Len(doc) = 61
    /\ Len(ValidOperationsOf(doc)) = 60
    /\ Len(OperationsOf(doc)) = 60
    /\ Len(parsed.Tools) = 50
    /\ parsed.Tools[50].Name = "op50"
    /\ Len(parsed.warnings) = 1

\* the name the description of the generated slug gives
LowerMethod(key) ==
    CASE key \in { "get", "GET" } -> "get"
      [] key = "Post" -> "post"
      [] OTHER -> key
StripBraces(segment) == SelectSeq(segment, LAMBDA c : c \notin { "{", "}" })
Capitalised(segment) ==
    IF segment = << >> THEN "" ELSE UpperChar(Head(segment)) \o Str(Tail(segment))
RECURSIVE SlugFrom(_, _)
SlugFrom(segments, i) ==
    IF i > Len(segments) THEN ""
    ELSE (IF segments[i] = << >> THEN "" ELSE Capitalised(StripBraces(segments[i])))
         \o SlugFrom(segments, i + 1)
Slug(key, path) == LowerMethod(key) \o SlugFrom(Split(path, "/"), 1)

\* C28: a synthesized tool's name is the operationId when it is present and
\* not empty; otherwise it is the lower-cased method followed by each
\* non-empty path segment with its braces stripped and its first letter
\* capitalised: getUsersId for GET /users/{id}, getUsersUserId for
\* GET /users/{userId}.
C28_ToolName ==
    (parsed.stage # "none" /\ Len(doc) = 1 /\ Len(parsed.Tools) = 1) =>
        LET e == doc[1]
            id == Field(e.operation, "operationId")
            name == parsed.Tools[1].Name
        IN  /\ (id.k = "string" /\ id.s # "") => name = id.s
            /\ ~(id.k = "string" /\ id.s # "") =>
                  /\ name = Slug(e.key, e.path)
                  /\ (e.key = "get" /\ e.path = PathUsersId) => name = "getUsersId"
                  /\ (e.key = "GET" /\ e.path = PathUsersUserId) => name = "getUsersUserId"

\* the parameters an operation declares, and those of them in path or query
DeclaredParameters(op) ==
    IF Field(op, "parameters").k = "array" THEN Field(op, "parameters").items ELSE << >>
InPathOrQuery(p) ==
    p.k = "object" /\ Field(p, "in") \in { JStr("path"), JStr("query") }

\* C29: a synthesized tool keeps exactly the declared parameters whose
\* location is path or query, in their order; every kept path parameter is
\* required whatever its declared flag, a query parameter is required if and
\* only if it is declared required.
C29_Parameters ==
    (parsed.stage # "none" /\ Len(doc) = 1 /\ Len(parsed.Tools) = 1) =>
        LET declared == SelectSeq(DeclaredParameters(doc[1].operation), InPathOrQuery)
            kept == parsed.Tools[1].Parameters
        IN  /\ Len(kept) = Len(declared)
            /\ \A i \in 1..Len(kept) :
                  /\ JStr(kept[i].Name) = Field(declared[i], "name")
                  /\ JStr(kept[i].In) = Field(declared[i], "in")
                  /\ kept[i].In = "path" => kept[i].Required
                  /\ kept[i].In = "query" =>
                       (kept[i].Required <=> Field(declared[i], "required") = JBool(TRUE))

C29_Witness ==
    /\ parsed.stage = "parsed"
    /\ Len(doc) = 1
    /\ DeclaredParameters(doc[1].operation)
          = << ParamDecl("X-Trace", "header", "true"), ParamDecl("id", "path", "false") >>
    /\ Len(parsed.Tools) = 1
    /\ Len(parsed.Tools[1].Parameters) = 1
    /\ parsed.Tools[1].Parameters[1].Name = "id"
    /\ parsed.Tools[1].Parameters[1].Required

\* the schema is one flat object over the parameters and the body properties
\* of the tool, every property with a type and a description
FlatSchema(t, schema) ==
    /\ schema.type = "object"
    /\ DOMAIN schema.properties
          = { t.Parameters[i].Name : i \in 1..Len(t.Parameters) }
            \cup DOMAIN t.RequestBody.Properties
    /\ \A name \in DOMAIN schema.properties :
          /\ DOMAIN schema.properties[name] = { "type", "description" }
          /\ schema.properties[name].type # ""
          /\ schema.properties[name].type
                \in { t.Parameters[i].Type : i \in { j \in 1..Len(t.Parameters) :
                                                       t.Parameters[j].Name = name } }
                    \cup (IF name \in DOMAIN t.RequestBody.Properties
                          THEN { t.RequestBody.Properties[name].Type } ELSE {})
    /\ schema.hasRequired <=> schema.required # << >>
RequiredSet(schema) == { schema.required[i] : i \in 1..Len(schema.required) }
RequiredParameterNames(t) ==
    { t.Parameters[i].Name : i \in { j \in 1..Len(t.Parameters) : t.Parameters[j].Required } }

\* the type of a declaration: string when none is declared
DeclaredType(schema) ==
    IF Field(schema, "type").k = "string" /\ Field(schema, "type").s # ""
    THEN Field(schema, "type").s ELSE "string"
TypesAsDeclared(op, t) ==
    LET declared == SelectSeq(DeclaredParameters(op), InPathOrQuery)
    IN  \A i \in 1..Len(declared) :
           t.Parameters[i].Type = DeclaredType(Field(declared[i], "schema"))

\* C30 as stated: the schema is one flat object over the parameter names and
\* the body property names, each with a type (string when none is declared)
\* and a description, and its required list holds exactly the required
\* parameters and the body's declared required fields.
C30_RequiredAsDeclared ==
    (parsed.stage = "defined" /\ Len(doc) = 1 /\ Len(parsed.Tools) = 1) =>
        LET t == parsed.Tools[1]
            schema == parsed.defs[1].InputSchema
        IN  /\ FlatSchema(t, schema)
            /\ TypesAsDeclared(doc[1].operation, t)
            /\ RequiredSet(schema) = RequiredParameterNames(t) \cup t.RequestBody.Required

\* C30: the schema is one flat object over the parameter names and the body
\* property names, each with a type (string when none is declared) and a
\* description, and its required list holds exactly the required parameters
\* and those declared required fields of the body that are among its
\* properties.
C30_FlatSchema ==
    (parsed.stage = "defined" /\ Len(doc) = 1 /\ Len(parsed.Tools) = 1) =>
        LET t == parsed.Tools[1]
            schema == parsed.defs[1].InputSchema
        IN  /\ FlatSchema(t, schema)
            /\ TypesAsDeclared(doc[1].operation, t)
            /\ RequiredSet(schema)
                  = RequiredParameterNames(t)
                    \cup (t.RequestBody.Required \cap DOMAIN t.RequestBody.Properties)

C30_Witness ==
    /\ parsed.stage = "defined"
    /\ Len(doc) = 1
    /\ Len(parsed.Tools) = 1
    /\ Len(parsed.Tools[1].Parameters) = 2
    /\ DOMAIN parsed.defs[1].InputSchema.properties = { "id", "limit", "name", "age" }
    /\ parsed.defs[1].InputSchema.properties["age"].type = "integer"
    /\ parsed.defs[1].InputSchema.properties["id"].type = "string"
    /\ parsed.defs[1].InputSchema.properties["limit"].description = "page size"
    /\ parsed.defs[1].InputSchema.required = << "id", "limit", "name" >>

\* ---- ExecuteTool: routing of the arguments
ExecTool == apiTools[1]
Executed == dName # "" /\ Len(apiTools) = 1 /\ dName = apiTools[1].Name
RequestBuilt == Executed /\ Len(http) = 1
Token(name) == "{" \o name \o "}"

\* the role of an argument name: the first of path, query and body that
\* the tool declares for it, none when it declares none
RoleOf(tool, name) ==
    IF name \in ParamNames(tool, "path") THEN "path"
    ELSE IF name \in ParamNames(tool, "query") THEN "query"
    ELSE IF tool.HasRequestBody THEN "body"
    ELSE "none"

\* the path with every {name} token of a supplied path parameter replaced
\* by the value supplied for that name
PathWithValues(tool, params) ==
    [i \in 1..Len(tool.Path) |->
        LET named == { n \in DOMAIN params :
                         RoleOf(tool, n) = "path" /\ tool.Path[i] = Token(n) }
        IN  IF named = {} THEN tool.Path[i] ELSE params[CHOOSE n \in named : TRUE]]

\* C31: ExecuteTool routes each supplied argument by the role declared for
\* its name, whatever the order of the arguments: a path parameter is put in
\* the place of its {name} token, a query parameter goes into the query
\* string, any other name goes into the flat body iff the tool declares a
\* request body, and no argument reaches more than one of the three.
C31_RoutedByRole ==
    RequestBuilt =>
        LET req == http[1]
        IN  /\ req.path = PathWithValues(ExecTool, dParams)
            /\ DOMAIN req.query = { n \in DOMAIN dParams : RoleOf(ExecTool, n) = "query" }
            /\ DOMAIN req.body = { n \in DOMAIN dParams : RoleOf(ExecTool, n) = "body" }
            /\ \A n \in DOMAIN req.query : req.query[n] = dParams[n]
            /\ \A n \in DOMAIN req.body : req.body[n] = dParams[n]
            /\ DOMAIN req.query \cap DOMAIN req.body = {}
            /\ \A n \in DOMAIN dParams :
                  RoleOf(ExecTool, n) \in {"query", "body", "none"}
                      => \A i \in 1..Len(req.path) :
                            req.path[i] = dParams[n] => ExecTool.Path[i] = dParams[n]

\* ---- ExecuteTool: what it returns
\* the request cannot be built: a supplied path argument with a broken
\* escape stands in the URL
Unbuildable ==
    \E n \in DOMAIN dParams :
        /\ RoleOf(ExecTool, n) = "path"
        /\ dParams[n] = InvalidEscape
        /\ \E i \in 1..Len(ExecTool.Path) : ExecTool.Path[i] = Token(n)
Unsent == ~dHost.sent
Unread == dHost.sent /\ ~dHost.read
Is2xx(status) == status >= 200 /\ status <= 299
Contains(text, piece) == \E i \in 1..Len(text) : text[i] = piece
PrettyPrinted(body) == <<"indented:", body>>

\* C32: a response outside 2xx is no error of ExecuteTool: the error is nil
\* and the result text holds the status code and the raw body; a 2xx
\* response gives the body, pretty-printed when it is JSON and as it is
\* otherwise; the error is non-nil exactly when the request could not be
\* built, sent or read.
C32_StatusIsNoError ==
    Executed =>
        /\ dResult.err # NoErr <=> (Unbuildable \/ Unsent \/ Unread)
        /\ dResult.err # NoErr => dResult.result = << >>
        /\ (dResult.err = NoErr /\ ~Is2xx(dHost.status)) =>
              /\ Contains(dResult.result, ToString(dHost.status))
              /\ Contains(dResult.result, dHost.body)
              /\ dResult.result[Len(dResult.result)] = dHost.body
        /\ (dResult.err = NoErr /\ Is2xx(dHost.status)) =>
              dResult.result = IF dHost.json THEN PrettyPrinted(dHost.body)
                               ELSE << dHost.body >>

C32_Witness ==
    /\ Executed
    /\ Len(http) = 1
    /\ dHost.sent /\ dHost.read
    /\ dHost.status = 500
    /\ dResult.err = NoErr
    /\ Contains(dResult.result, "500")
    /\ Contains(dResult.result, "oops")

\* ---- ExecuteTool: the headers of the request
JSONType == "application/json"

\* C33: every request asks for JSON (Accept); it declares a JSON body
\* (Content-Type) iff it carries a body; it carries Authorization iff the
\* caller gave a non-empty header, and then with exactly that value.
C33_Headers ==
    RequestBuilt =>
        LET req == http[1]
            h == req.headers
        IN  /\ "Accept" \in DOMAIN h /\ h["Accept"] = JSONType
            /\ "Content-Type" \in DOMAIN h <=> DOMAIN req.body # {}
            /\ req.hasBody <=> DOMAIN req.body # {}
            /\ "Content-Type" \in DOMAIN h => h["Content-Type"] = JSONType
            /\ "Authorization" \in DOMAIN h <=> dAuth # ""
            /\ "Authorization" \in DOMAIN h => h["Authorization"] = dAuth
            /\ DOMAIN h \subseteq {"Accept", "Content-Type", "Authorization"}

C33_Witness ==
    /\ RequestBuilt
    /\ dAuth = "Bearer t"
    /\ DOMAIN http[1].body = {"name"}
    /\ DOMAIN http[1].headers = {"Accept", "Content-Type", "Authorization"}
    /\ http[1].headers["Authorization"] = "Bearer t"

\* ---- the authentication mode
Constructed == authManager.mode # "none"
HasServed == served.answer # "none"
IsCustomFunc(getUser) == getUser.isSet /\ ~getUser.sentinel

\* C34: the mode is open iff Auth.GetUser is the NoAuth sentinel; any other
\* configured function selects host-system authentication, where it is
\* called on every request and a request is rejected when it returns an
\* error; a nil GetUser selects password mode.
C34_ModeDecision ==
    Constructed =>
        /\ authManager.mode = "authModeOpen" <=> authConfig.GetUser = NoAuth
        /\ IsCustomFunc(authConfig.GetUser) =>
              /\ authManager.mode = "authModeCustom"
              /\ HasServed =>
                    /\ served.auth.called
                    /\ authConfig.GetUser.on[served.request.cred] = AuthError
                          => served.answer = "401"
        /\ ~authConfig.GetUser.isSet => authManager.mode = "authModePassword"

\* ---- the history of a session
HoldsInvocations(m) ==
    m.Role = "assistant" /\ \E i \in 1..Len(m.Content) : IsToolUse(m.Content[i])
IsClientMessage(m) ==
    /\ m.Role = "user"
    /\ Len(m.Content) = 1
    /\ IsTextBlock(m.Content[1])
Answers(result, invoking) ==
    /\ result.Role = "user"
    /\ result.Content # << >>
    /\ OnlyToolResults(result.Content)
    /\ \A i \in 1..Len(result.Content) :
          \E j \in 1..Len(invoking.Content) :
              /\ IsToolUse(invoking.Content[j])
              /\ invoking.Content[j].ID = result.Content[i].ToolUseID
IsDoneEvent(e) == e.Type = "done"
DoneCount(conn) == Len(SelectSeq(conn, IsDoneEvent))

\* C35: no client message stands in the history between an assistant message
\* that holds tool invocations and the tool-result message that answers it;
\* a client message is read, and then appended, only when the processChat
\* run for the client message before it has returned.
C35_NoClientMessageInside ==
    /\ [](\A i \in 1..Len(messages) :
             HoldsInvocations(messages[i]) =>
                 /\ i < Len(messages)
                 /\ Answers(messages[i + 1], messages[i]))
    /\ [][nMsgs' # nMsgs => (pc = "read" /\ DoneCount(out) = nMsgs)]_vars
    /\ [][(Len(messages') > Len(messages)
             /\ IsClientMessage(messages'[Len(messages')]))
          => (pc = "usermsg" /\ DoneCount(out) = nMsgs - 1
              /\ messages' = Append(messages, messages'[Len(messages')]))]_vars

C35_Witness ==
    /\ \E i \in 1..Len(messages) :
          /\ HoldsInvocations(messages[i])
          /\ \E j \in (i + 2)..Len(messages) : IsClientMessage(messages[j])
    /\ nMsgs = 2

Alternates(h) ==
    /\ h # << >> => h[1].Role = "user"
    /\ \A i \in 1..(Len(h) - 1) :
          /\ h[i].Role \in {"user", "assistant"}
          /\ h[i + 1].Role \in {"user", "assistant"}
          /\ h[i].Role # h[i + 1].Role

\* C36: after any sequence of client messages and processChat runs, those
\* that end with a provider error or use up the ten turns included, the
\* history starts with a user message and its roles alternate strictly
\* between user and assistant.
C36_RolesAlternate == pc = "read" => Alternates(messages)

\* ---- the events of a client message
Emitted(before, after) == SubSeq(after, Len(before) + 1, Len(after))
EmitsOnly(before, after) ==
    /\ Len(after) >= Len(before)
    /\ SubSeq(after, 1, Len(before)) = before
ErrorCount(conn) == Len(SelectSeq(conn, IsErrorEvent))

\* C37: every client message that is read gets exactly one "done" event,
\* which comes after every text event and after the error event of that
\* message, whether processChat returned nil, an error or at the turn cap;
\* a client message has at most one error event.
C37_OneDonePerMessage ==
    /\ \A k \in 1..MaxMsgs : (nMsgs = k) ~> (DoneCount(out) = k)
    /\ [](DoneCount(out) \in {nMsgs - 1, nMsgs} /\ DoneCount(out) >= 0)
    /\ [](pc \in {"read", "closed"} => DoneCount(out) = nMsgs)
    /\ [][EmitsOnly(out, out')]_vars
    /\ [][\A i \in 1..Len(Emitted(out, out')) :
             Emitted(out, out')[i].Type \in {"text", "error", "done"}
                 => DoneCount(SubSeq(out', 1, Len(out) + i - 1)) = nMsgs - 1]_vars
    /\ [](\A i \in 1..Len(out) :
             IsErrorEvent(out[i]) =>
                 /\ i < Len(out) /\ IsDoneEvent(out[i + 1])
                 /\ i > 1 => ~IsErrorEvent(out[i - 1]))

C37_Witness ==
    /\ nMsgs = 2
    /\ DoneCount(out) = 2
    /\ ErrorCount(out) = 1
    /\ \E i \in 1..Len(out) : IsTextEvent(out[i])
    /\ IsDoneEvent(out[Len(out)])

\* ---- the tool results of a converted history
ResultsOf(msg) == SelectSeq(msg.Content, IsToolResult)
IsToolMessage(m) == Field(m, "role") = JStr("tool")
\* the tool messages of a request, in order
ToolMessages(req) == SelectSeq(req.messages, IsToolMessage)
\* the tool results of the user messages of a history, in order
RECURSIVE ResultsIn(_)
ResultsIn(h) ==
    IF h = << >> THEN << >>
    ELSE (IF Head(h).Role = "user" THEN ResultsOf(Head(h)) ELSE << >>)
         \o ResultsIn(Tail(h))

\* C38: the outbound conversion loses no tool result: a user message with
\* n >= 1 tool results gives n messages of role "tool", one per result, each
\* with the invocation id and the content of its result.
C38_NoResultLost ==
    convCase = "outbound" =>
        LET results == ResultsIn(convIn.messages)
            tools == ToolMessages(convOut)
        IN  /\ Len(tools) = Len(results)
            /\ \A i \in 1..Len(results) :
                  /\ Field(tools[i], "tool_call_id") = JStr(results[i].ToolUseID)
                  /\ Field(tools[i], "content") = JStr(FlattenPieces(results[i].Content))

\* C39: every assistant message that processChat appends to the history has
\* at least one segment, also when the provider's response has no content.
C39_AssistantNotEmpty ==
    \A i \in 1..Len(messages) :
        messages[i].Role = "assistant" => Len(messages[i].Content) >= 1

====
